---- MODULE Spec2Model ----
(***************************************************************************)
(* A model of pytoolbox_jdo's file cache: the FileCache resolution engine, *)
(* the shared BaseFileMatcher behaviour (cache path, freshness,            *)
(* get_or_update_cache, split_container) and the concrete handlers.        *)
(*                                                                         *)
(* Python values are modelled as records: None, str (a sequence of         *)
(* one-character strings) and pathlib.Path (a normalised sequence).        *)
(***************************************************************************)
EXTENDS Integers, Sequences, FiniteSets, TLC

VARIABLES
    sc_pc,          \* split_container harness: "input" before the call, "done" after
    sc_fname,       \* the fname argument (characters of str(fname))
    sc_extensions,  \* the extensions argument
    sc_result       \* the returned pair

VARIABLES
    world,          \* the files and callers the engine runs with (fixed)
    cache_dir,      \* FileCache.cache_dir: a Path or None (fixed)
    repo,           \* FileCache.repo: the registered handlers, in order
    fs,             \* the filesystem: path |-> [kind, mtime, content]
    clock,          \* the wall clock, in ticks
    pc,             \* FileCache.resolve: "idle" or "dispatching"
    call,           \* the arguments of the current or last resolve: [fname, kvargs]
    prev,           \* the outcome of the resolve before, when it had the same arguments
    i,              \* resolve's loop index
    file,           \* resolve's current reference
    kvargs,         \* resolve's current option bag
    outcome,        \* how the last call ended: None, [returned], [raised],
                    \* [registered] or [cleared]
    log,            \* the handler calls of the current or last resolve
    made,           \* artifact path |-> its source's mtime when it was produced
    git_cmds,       \* the git commands run in the current or last resolve
    git_clones      \* the number of clones run since construction or the last clear_cache

sc_vars == <<sc_pc, sc_fname, sc_extensions, sc_result>>

fc_vars == <<world, cache_dir, repo, fs, clock, pc, call, prev, i, file, kvargs, outcome, log, made,
            git_cmds, git_clones>>

VARIABLES
    pl_pipelines,   \* Pipeline.pipelines: the groups in insertion order, each
                    \* [name, steps]; a step is [name, returns]
    pl_event_count, \* Pipeline.event_count
    pl_pc,          \* "constructed", "body" (inside the with block) or "exited"
    pl_calls,       \* the step methods invoked so far: [op, step, event]
    pl_last         \* the last call made on the pipeline and how it ended

pl_vars == <<pl_pipelines, pl_event_count, pl_pc, pl_calls, pl_last>>

VARIABLES
    dg_pc,          \* deep_get harness: "input" before the call, "done" after
    dg_args,        \* the arguments: [dict, keys, default, separator]
    dg_result       \* what the call returned or raised

dg_vars == <<dg_pc, dg_args, dg_result>>

VARIABLES
    cfg_files,       \* the config files on the search path: name |-> its CONFIG
    cfg_user_config, \* Config.user_config: the names of the user configs, as listed
    cfg_config,      \* Config.config: the layers, highest priority first
    cfg_last         \* the last call made on the Config and how it ended

cfg_vars == <<cfg_files, cfg_user_config, cfg_config, cfg_last>>

VARIABLES
    modules,        \* import_module.modules: module name |-> the file imported
    im_last         \* the last import_module_from_file call and how it ended

im_vars == <<modules, im_last>>

VARIABLES
    cc_pc,      \* per resolution: the call of get_or_update_cache it is about to make
    cc_dir,     \* the extraction directory: [exists, members, mtime]
    cc_todo,    \* per resolution: what rmtree has listed and not removed yet, or
                \* what extractall has not written yet
    cc_result,  \* per resolution: what get_or_update_cache returned or raised
    cc_seen,    \* per resolution: what the directory held when it returned
    cc_wrote,   \* per resolution: it has created, removed or written the directory
    cc_clock    \* the time, in seconds

cc_vars == <<cc_pc, cc_dir, cc_todo, cc_result, cc_seen, cc_wrote, cc_clock>>

\* the variables of the other modules of the package
aux_vars == <<pl_vars, dg_vars, cfg_vars, im_vars, cc_vars>>

vars == <<sc_vars, fc_vars, aux_vars>>

-----------------------------------------------------------------------------
(* Python values *)

None == [type |-> "None"]

Str(s) == [type |-> "str", s |-> s]

\* a dict with no keys
EmptyDict == [k \in {} |-> None]

\* d.get(key, None)
dict_get(d, key) == IF key \in DOMAIN d THEN d[key] ELSE None

\* d after d.pop(key, None)
dict_without(d, key) == [k \in DOMAIN d \ {key} |-> d[k]]

\* Python truthiness of None, a str and a Path (a Path is always true)
truthy(v) == v # None /\ ~(v.type = "str" /\ v.s = <<>>)

(* Bounds of the model *)

MaxTokens == 5

TicksPerSecond == 2

MaxClock == 2

MaxRepo == 2

MaxClones == 2

MaxSteps == 2

MaxEvents == 2

MaxDepth == 2

\* the handlers of a registry with every built-in handler
MaxHandlers == 4

\* the handler calls one resolve is followed for
MaxPasses == 16

ext_tar == <<"t", "a", "r">>

ext_tar_gz == <<"t", "a", "r", ".", "g", "z">>

ext_gz == <<"g", "z">>

ext_zip == <<"z", "i", "p">>

\* the option that carries the archive password
opt_pwd == <<"p", "w", "d">>

\* mutant: "tar" is missing from the list
TarExtensionGzOnly == <<ext_tar_gz>>

\* TarFileMatcher.extension
TarExtension == <<ext_tar, ext_tar_gz>>

\* ZipFileMatcher.extension
ZipExtension == <<ext_zip>>

\* self.extension of an archive handler
extension(h) == IF h.cls = "ZipFileMatcher" THEN ZipExtension ELSE TarExtension

-----------------------------------------------------------------------------
(* str operations, as Python computes them (0-based positions) *)

Range(f) == {f[k] : k \in DOMAIN f}

\* s.endswith(suffix)
endswith(s, suffix) ==
    /\ Len(s) >= Len(suffix)
    /\ SubSeq(s, Len(s) - Len(suffix) + 1, Len(s)) = suffix

\* s.find(sub): the lowest 0-based index where sub starts, -1 when absent
find(s, sub) ==
    LET hits == {k \in 0..(Len(s) - Len(sub)) : SubSeq(s, k + 1, k + Len(sub)) = sub}
    IN  IF hits = {} THEN -1 ELSE CHOOSE k \in hits : \A j \in hits : k <= j

\* s.replace(old, new) for one-character old and new
replace(s, old, new) == [k \in 1..Len(s) |-> IF s[k] = old THEN new ELSE s[k]]

\* s[:pos]
slice_to(s, pos) == SubSeq(s, 1, pos)

\* s[pos:]
slice_from(s, pos) == SubSeq(s, pos + 1, Len(s))

-----------------------------------------------------------------------------
(* pathlib.Path on a POSIX system, on the characters of the path *)

RECURSIVE split_slash(_)
\* s.split("/")
split_slash(s) ==
    LET p == find(s, <<"/">>)
    IN  IF p = -1 THEN <<s>> ELSE <<slice_to(s, p)>> \o split_slash(slice_from(s, p + 1))

RECURSIVE join_slash(_)
\* "/".join(parts)
join_slash(parts) ==
    IF Len(parts) = 0 THEN <<>>
    ELSE IF Len(parts) = 1 THEN parts[1]
    ELSE parts[1] \o <<"/">> \o join_slash(Tail(parts))

\* the parts pathlib keeps: no empty and no "." segments
path_parts(s) == SelectSeq(split_slash(s), LAMBDA seg : seg # <<>> /\ seg # <<".">>)

is_absolute(s) == Len(s) > 0 /\ s[1] = "/"

\* str(Path(s)): repeated and trailing separators and "." segments are dropped
path_str(s) ==
    LET body == join_slash(path_parts(s))
    IN  IF is_absolute(s) THEN <<"/">> \o body
        ELSE IF body = <<>> THEN <<".">> ELSE body

Path(s) == [type |-> "Path", s |-> path_str(s)]

\* Path(fname).name: the last part
path_name(s) ==
    LET parts == path_parts(s) IN IF Len(parts) = 0 THEN <<>> ELSE parts[Len(parts)]

\* left / right: an absolute right operand replaces the left one
path_join(left, right) ==
    IF is_absolute(right.s) THEN Path(right.s) ELSE Path(left.s \o <<"/">> \o right.s)

-----------------------------------------------------------------------------
(* The filesystem *)

exists(f, s) == path_str(s) \in DOMAIN f

isfile(f, s) == exists(f, s) /\ f[path_str(s)].kind = "file"

isdir(f, s) == exists(f, s) /\ f[path_str(s)].kind = "dir"

\* p is s itself or lies below the directory s
is_under(p, s) == p = s \/ (Len(p) > Len(s) /\ SubSeq(p, 1, Len(s) + 1) = s \o <<"/">>)

\* shutil.rmtree(s)
rmtree(f, s) == [p \in {q \in DOMAIN f : ~is_under(q, path_str(s))} |-> f[p]]

\* a file or directory entry written at time t
entry(kind, t, content) == [kind |-> kind, mtime |-> t, content |-> content]

\* f with the entry e at path s
write(f, s, e) == [p \in DOMAIN f \cup {path_str(s)} |-> IF p = path_str(s) THEN e ELSE f[p]]

\* the parent directory of s exists ("." is the working directory)
parent_exists(f, s) ==
    LET parts == path_parts(s)
    IN  Len(parts) <= 1 \/ isdir(f, join_slash(SubSeq(parts, 1, Len(parts) - 1)))

-----------------------------------------------------------------------------
(* BaseFileMatcher.split_container *)

\* mutant: the separators are left as they are
normalize_separators_skipped(fname) == fname

\* the separator normalisation of its first line: every back-slash becomes "/"
normalize_separators(fname) == replace(fname, "\\", "/")

RECURSIVE split_container_loop(_, _, _)
\* the for-loop over extensions, from index k on, on the normalised fname
split_container_loop(fname, extensions, k) ==
    IF k > Len(extensions) THEN <<None, None>>
    ELSE LET ext == extensions[k]
             pos == find(fname, <<".">> \o ext \o <<"/">>)
             cut == pos + Len(ext) + 1
         IN  IF endswith(fname, <<".">> \o ext) THEN <<Str(fname), None>>
             ELSE IF pos # -1
                  THEN <<Str(slice_to(fname, cut)), Str(slice_from(fname, cut + 1))>>
                  ELSE split_container_loop(fname, extensions, k + 1)

RECURSIVE split_container_short_loop(_, _, _)
\* mutant: the cut misses the last character of the extension
split_container_short_loop(fname, extensions, k) ==
    IF k > Len(extensions) THEN <<None, None>>
    ELSE LET ext == extensions[k]
             pos == find(fname, <<".">> \o ext \o <<"/">>)
             cut == pos + Len(ext)
         IN  IF endswith(fname, <<".">> \o ext) THEN <<Str(fname), None>>
             ELSE IF pos # -1
                  THEN <<Str(slice_to(fname, cut)), Str(slice_from(fname, cut + 1))>>
                  ELSE split_container_short_loop(fname, extensions, k + 1)

RECURSIVE split_container_slash_loop(_, _, _)
\* mutant: the inner path keeps the separator it follows
split_container_slash_loop(fname, extensions, k) ==
    IF k > Len(extensions) THEN <<None, None>>
    ELSE LET ext == extensions[k]
             pos == find(fname, <<".">> \o ext \o <<"/">>)
             cut == pos + Len(ext) + 1
         IN  IF endswith(fname, <<".">> \o ext) THEN <<Str(fname), None>>
             ELSE IF pos # -1
                  THEN <<Str(slice_to(fname, cut)), Str(slice_from(fname, cut))>>
                  ELSE split_container_slash_loop(fname, extensions, k + 1)

split_container_keeps_slash(fname, extensions) ==
    split_container_slash_loop(normalize_separators(fname), extensions, 1)

split_container_short(fname, extensions) ==
    split_container_short_loop(normalize_separators(fname), extensions, 1)

split_container(fname, extensions) ==
    split_container_loop(normalize_separators(fname), extensions, 1)

-----------------------------------------------------------------------------
(* File contents: plain data, a gzip stream around a content, and a tar    *)
(* archive of members (member name |-> content).                           *)

Plain(id) == [kind |-> "plain", id |-> id]

GzOf(c) == [kind |-> "gz", inner |-> c]

TarOf(members) == [kind |-> "tar", members |-> members]

\* a zip archive; password is None when the members are not encrypted
ZipOf(members, password) == [kind |-> "zip", members |-> members, password |-> password]

DirContent == [kind |-> "dir"]

\* what directory d holds: member name |-> content of every file below it
dir_members(f, d) ==
    LET below == {p \in DOMAIN f : is_under(p, d) /\ p # d /\ f[p].kind = "file"}
    IN  [m \in {slice_from(p, Len(d) + 1) : p \in below} |-> f[d \o <<"/">> \o m].content]

-----------------------------------------------------------------------------
(* BaseFileMatcher: cache path, freshness and get_or_update_cache.         *)
(* A handler is [cls, name, cache_dir].                                    *)
(* An operation that can raise returns [raised |-> TRUE] with the          *)
(* filesystem as it left it.                                               *)

\* str(fname).rsplit(".", maxsplit=1)[-1]: the text after the last "."
rsplit_dot_last(s) ==
    LET dots == {k \in 1..Len(s) : s[k] = "."}
    IN  IF dots = {} THEN s
        ELSE slice_from(s, CHOOSE k \in dots : \A j \in dots : j <= k)

\* int(x) of a time stamp kept in ticks: the whole seconds
int_seconds(ticks) == ticks \div TicksPerSecond

\* GzFileMatcher.cache_filename: the base name without the ".gz" suffix
gz_cache_filename(fname) ==
    LET name == path_name(fname.s)
    IN  IF endswith(name, <<".">> \o ext_gz) THEN slice_to(name, Len(name) - 3) ELSE name

\* mutant: the artifact is named by the base name without its last suffix
cache_filename_stem(h, fname) ==
    LET name == path_name(fname.s)
    IN  slice_to(name, Len(name) - Len(rsplit_dot_last(name)) - 1)

\* cache_filename: Path(fname).name, unless the class overrides it
cache_filename(h, fname) ==
    IF h.cls = "GzFileMatcher" THEN gz_cache_filename(fname) ELSE path_name(fname.s)

\* mutant: the artifact is placed in the cache root directly
cache_path_in_root(h, fname) ==
    IF ~truthy(h.cache_dir) THEN None
    ELSE path_join(Path(<<"k">>), Str(cache_filename(h, fname)))

cache_path(h, fname) ==
    IF ~truthy(h.cache_dir) THEN None
    ELSE path_join(h.cache_dir, Str(cache_filename(h, fname)))

\* BaseFileMatcher.mtime
mtime(f, fname) == int_seconds(f[path_str(fname.s)].mtime)

\* mutant: an artifact as old as its source counts as fresh
is_cache_eligible_or_equal(h, f, cached_file, fname) ==
    int_seconds(f[cached_file.s].mtime) >= mtime(f, fname)

is_cache_eligible(h, f, cached_file, fname) ==
    LET mtime_source == mtime(f, fname)
        mtime_cached == int_seconds(f[cached_file.s].mtime)
    IN  mtime_cached > mtime_source


\* TarFileMatcher.open_uncached: tarfile.open(fname, "r") reads a plain or a
\* compressed archive, tarfile.open(fname, "r:gz") a gzip-compressed one only
tar_open_uncached(f, fname) ==
    LET suffix == rsplit_dot_last(fname.s)
        content == f[path_str(fname.s)].content
        plain_tar == content.kind = "tar"
        gz_tar == content.kind = "gz" /\ content.inner.kind = "tar"
    IN  IF ~isfile(f, fname.s) THEN [raised |-> TRUE]
        ELSE IF suffix = ext_tar /\ plain_tar THEN [raised |-> FALSE, members |-> content.members]
        ELSE IF suffix \in {ext_tar, ext_gz} /\ gz_tar
             THEN [raised |-> FALSE, members |-> content.inner.members]
             ELSE [raised |-> TRUE]

\* tar.extractall(path=outdir): every member becomes a file below outdir
\* and keeps the modification time stored in the archive
extractall(f, outdir, members) ==
    LET target(m) == path_str(outdir.s \o <<"/">> \o m)
        written == {target(m) : m \in DOMAIN members}
    IN  [p \in DOMAIN f \cup written |->
            IF p \in written
            THEN entry("file", 0, members[CHOOSE m \in DOMAIN members : target(m) = p])
            ELSE f[p]]

\* os.mkdir(d): fails when d exists or its parent does not
mkdir(f, d, t) ==
    IF exists(f, d.s) \/ ~parent_exists(f, d.s) THEN [raised |-> TRUE, fs |-> f]
    ELSE [raised |-> FALSE, fs |-> write(f, d.s, entry("dir", t, DirContent))]

\* TarFileMatcher.extractall: open the archive, unpack it into outdir
tar_extractall(f, tar, outdir) ==
    IF tar.raised THEN [raised |-> TRUE, fs |-> f]
    ELSE [raised |-> FALSE, fs |-> extractall(f, outdir, tar.members)]

\* the end of TarFileMatcher.update_cache, after os.mkdir(outdir)
tar_extract_into(made_dir, fname, outdir) ==
    IF made_dir.raised THEN made_dir
    ELSE tar_extractall(made_dir.fs, tar_open_uncached(made_dir.fs, fname), outdir)

\* mutant: an existing directory is kept and unpacked into
tar_update_cache_incremental(f, fname, cached_file, t) ==
    tar_extract_into(
        IF isdir(f, cached_file.s) THEN [raised |-> FALSE, fs |-> f] ELSE mkdir(f, cached_file, t),
        fname, cached_file)

\* TarFileMatcher.update_cache: wipe the directory, recreate it, unpack
tar_update_cache(f, fname, cached_file, t) ==
    tar_extract_into(
        mkdir(IF isdir(f, cached_file.s) THEN rmtree(f, cached_file.s) ELSE f, cached_file, t),
        fname, cached_file)

\* ZipFileMatcher.open_uncached: zipfile.ZipFile(fname, "r"), with the
\* password of the pwd option set when one is given; unlocked tells whether
\* the members can be read with it
zip_open_uncached(f, fname, kv) ==
    LET content == f[path_str(fname.s)].content
        password == dict_get(kv, opt_pwd)
    IN  IF ~isfile(f, fname.s) THEN [raised |-> TRUE]
        ELSE IF content.kind # "zip" THEN [raised |-> TRUE]
        ELSE [raised |-> FALSE, members |-> content.members,
              unlocked |-> content.password = None
                            \/ (truthy(password) /\ content.password = password)]

\* zipfd.extractall(path=outdir): every member becomes a file below outdir,
\* written now
zip_write_members(f, outdir, members, t) ==
    LET target(m) == path_str(outdir.s \o <<"/">> \o m)
        written == {target(m) : m \in DOMAIN members}
    IN  [p \in DOMAIN f \cup written |->
            IF p \in written
            THEN entry("file", t, members[CHOOSE m \in DOMAIN members : target(m) = p])
            ELSE f[p]]

\* ZipFileMatcher.extractall: an encrypted member that cannot be read raises
\* before its file is created
zip_extractall(f, zipfd, outdir, t) ==
    IF zipfd.raised THEN [raised |-> TRUE, fs |-> f]
    ELSE IF ~zipfd.unlocked THEN [raised |-> TRUE, fs |-> f]
    ELSE [raised |-> FALSE, fs |-> zip_write_members(f, outdir, zipfd.members, t)]

\* the end of TarFileMatcher.update_cache with ZipFileMatcher.extractall
zip_extract_into(made_dir, fname, outdir, kv, t) ==
    IF made_dir.raised THEN made_dir
    ELSE zip_extractall(made_dir.fs, zip_open_uncached(made_dir.fs, fname, kv), outdir, t)

\* TarFileMatcher.update_cache as ZipFileMatcher inherits it
zip_update_cache(f, fname, cached_file, kv, t) ==
    zip_extract_into(
        mkdir(IF isdir(f, cached_file.s) THEN rmtree(f, cached_file.s) ELSE f, cached_file, t),
        fname, cached_file, kv, t)

\* the cache file is written with what infile.read() gave
base_write_cache(f, content, target, t) ==
    IF isdir(f, target) \/ ~parent_exists(f, target)
    THEN [raised |-> TRUE, fs |-> f]
    ELSE IF content.kind # "gz"
    THEN [raised |-> TRUE, fs |-> write(f, target, entry("file", t, Plain("empty")))]
    ELSE [raised |-> FALSE, fs |-> write(f, target, entry("file", t, content.inner))]

\* BaseFileMatcher.update_cache with gzip.open as open_uncached: the cache
\* file is opened for writing (created or truncated) before the source is read
base_update_cache(f, fname, cached_file, t) ==
    base_write_cache(f, f[path_str(fname.s)].content, cached_file.s, t)

update_cache(h, f, fname, cached_file, kv, t) ==
    IF h.cls = "TarFileMatcher" THEN tar_update_cache(f, fname, cached_file, t)
    ELSE IF h.cls = "ZipFileMatcher" THEN zip_update_cache(f, fname, cached_file, kv, t)
    ELSE base_update_cache(f, fname, cached_file, t)

\* mutant: the artifact is produced on every call
needs_update_always(h, f, cached_file, fname) == TRUE

\* the two branches of get_or_update_cache that call update_cache
needs_update(h, f, cached_file, fname) ==
    IF ~exists(f, cached_file.s) THEN TRUE
    ELSE ~is_cache_eligible(h, f, cached_file, fname)

\* the return statement of get_or_update_cache
cache_result(after, update, target) ==
    [value |-> IF exists(after.fs, target.s) THEN target ELSE None,
     fs |-> after.fs, raised |-> after.raised, produced |-> update]

\* get_or_update_cache once the cache directory exists
cache_lookup(h, f, fname, cached_file, update, kv, t) ==
    cache_result(IF update THEN update_cache(h, f, fname, cached_file, kv, t)
                 ELSE [raised |-> FALSE, fs |-> f],
                 update, cached_file)

\* get_or_update_cache from its cache_dir.mkdir() on
cache_in_dir(h, dir, fname, cached_file, kv, t) ==
    IF dir.raised
    THEN [value |-> None, fs |-> dir.fs, raised |-> TRUE, produced |-> FALSE]
    ELSE cache_lookup(h, dir.fs, fname, cached_file,
                      needs_update(h, dir.fs, cached_file, fname), kv, t)

\* BaseFileMatcher.get_or_update_cache; produced tells whether update_cache ran
get_or_update_cache(h, f, fname, kv, t) ==
    IF ~truthy(h.cache_dir)
    THEN [value |-> None, fs |-> f, raised |-> FALSE, produced |-> FALSE]
    ELSE cache_in_dir(h,
                      IF exists(f, h.cache_dir.s) THEN [raised |-> FALSE, fs |-> f]
                      ELSE mkdir(f, h.cache_dir, t),
                      fname, cache_path(h, fname), kv, t)

-----------------------------------------------------------------------------
(* The handlers' resolve. The result is [value, kvargs, fs, raised, fetch]; *)
(* fetch records the get_or_update_cache call made, None when none was.    *)

declined(kv, f) == [value |-> None, kvargs |-> kv, fs |-> f, raised |-> FALSE, fetch |-> None]

\* the record of a get_or_update_cache call
fetch_record(h, f, source, artifact, got) ==
    IF artifact = None THEN None
    ELSE [handler |-> h.name, source |-> path_str(source.s), artifact |-> artifact.s,
          existed |-> exists(f, artifact.s), produced |-> got.produced,
          source_mtime |-> f[path_str(source.s)].mtime,
          cached_mtime |-> IF exists(f, artifact.s) THEN f[artifact.s].mtime ELSE -1]

\* mutant: on a cache hit the inner path is not joined to the artifact
resolved_hit_drops_fpath(h, f, container_file, got, fpath, kv) ==
    [value |-> IF got.raised \/ got.value = None THEN None
               ELSE IF fpath = None \/ ~got.produced THEN got.value
               ELSE path_join(got.value, fpath),
     kvargs |-> kv, fs |-> got.fs, raised |-> got.raised,
     fetch |-> fetch_record(h, f, container_file, cache_path(h, container_file), got)]

\* the end of TarFileMatcher.resolve: None, the artifact, or artifact / fpath
resolved(h, f, container_file, got, fpath, kv) ==
    [value |-> IF got.raised \/ got.value = None THEN None
               ELSE IF fpath = None THEN got.value
               ELSE path_join(got.value, fpath),
     kvargs |-> kv, fs |-> got.fs, raised |-> got.raised,
     fetch |-> fetch_record(h, f, container_file, cache_path(h, container_file), got)]

\* mutant: a container file that is not there is an error
resolve_container_raises(h, container_file, fpath, kv, f, t) ==
    IF container_file = None THEN declined(kv, f)
    ELSE IF ~isfile(f, container_file.s) THEN [declined(kv, f) EXCEPT !.raised = TRUE]
    ELSE resolved(h, f, container_file, get_or_update_cache(h, f, container_file, kv, t),
                  fpath, kv)

\* TarFileMatcher.resolve from the isfile check on
resolve_container(h, container_file, fpath, kv, f, t) ==
    IF container_file = None THEN declined(kv, f)
    ELSE IF ~isfile(f, container_file.s) THEN declined(kv, f)
    ELSE resolved(h, f, container_file, get_or_update_cache(h, f, container_file, kv, t),
                  fpath, kv)

\* the container file and the inner path: the option when it is given,
\* else the split reference
tar_container(option, fname, split) ==
    IF truthy(option) THEN <<option, fname>> ELSE split

\* mutant: the container option stays in the bag
tar_resolve_keeps_option(h, fname, kv, f, t) ==
    LET found == tar_container(dict_get(kv, extension(h)[1]), fname,
                               split_container(fname.s, extension(h)))
    IN  resolve_container(h, found[1], found[2], kv, f, t)

\* TarFileMatcher.resolve, which ZipFileMatcher inherits
tar_resolve(h, fname, kv, f, t) ==
    LET found == tar_container(dict_get(kv, extension(h)[1]), fname,
                               split_container(fname.s, extension(h)))
    IN  resolve_container(h, found[1], found[2], dict_without(kv, extension(h)[1]), f, t)

\* GzFileMatcher.resolve: accepts a path that ends in ".gz" or holds ".gz/",
\* declines a missing source, returns the decompressed cache file
gz_resolve(h, fname, kv, f, t) ==
    LET split == split_container(fname.s, <<ext_gz>>)
    IN  resolve_container(h, split[1], split[2], kv, f, t)

-----------------------------------------------------------------------------
(* GitFileMatcher and the Git client of git_utils. The commands themselves  *)
(* are run by the external git program: a command that is issued succeeds,  *)
(* and a clone creates the directory named after the last component of the  *)
(* repository reference in the directory it is run in.                      *)

opt_git == <<"g", "i", "t">>

opt_revision == <<"r", "e", "v", "i", "s", "i", "o", "n">>

opt_branch == <<"b", "r", "a", "n", "c", "h">>

opt_effective_date == <<"e", "f", "f", "e", "c", "t", "i", "v", "e", "_", "d", "a", "t", "e">>

opt_pull == <<"p", "u", "l", "l">>

\* a bool
Bool(b) == [type |-> "bool", v |-> b]

\* a datetime; d is the characters of str() of it
datetime(d) == [type |-> "datetime", d |-> d]

\* a date before the first commit of every repository
FirstDay == <<"0">>

\* Python truthiness of an option value: None, a str, a bool or a datetime
is_true(v) == truthy(v) /\ ~(v.type = "bool" /\ ~v.v)

\* s up to the first character that is in stops
before_any(s, stops) ==
    LET hits == {k \in 1..Len(s) : s[k] \in stops}
    IN  IF hits = {} THEN s
        ELSE SubSeq(s, 1, (CHOOSE k \in hits : \A j \in hits : k <= j) - 1)

\* what follows the network location of "scheme://netloc/path"
after_netloc(rest) ==
    IF find(rest, <<"/">>) = -1 THEN <<>> ELSE slice_from(rest, find(rest, <<"/">>))

\* urlparse(s).path: the path of "scheme://netloc/path?query#fragment", all of
\* s when it has no scheme
url_path(s) ==
    before_any(IF find(s, <<":", "/", "/">>) = -1 THEN s
               ELSE after_netloc(slice_from(s, find(s, <<":", "/", "/">>) + 3)),
               {"?", "#"})

\* path[2] if len(path) > 2 else None, of the segments of the url's path
project_of(path) == IF Len(path) > 2 THEN path[3] ELSE <<>>

\* GitFileMatcher.cache_filename: [raised, name]
git_cache_filename(f, fname) ==
    IF isdir(f, replace(fname.s, "\\", "/"))
    THEN [raised |-> FALSE, name |-> path_name(replace(fname.s, "\\", "/"))]
    ELSE [raised |-> project_of(split_slash(before_any(url_path(replace(fname.s, "\\", "/")),
                                                        {";"}))) = <<>>,
          name |-> project_of(split_slash(before_any(url_path(replace(fname.s, "\\", "/")),
                                                      {";"})))]

\* a git command run in the directory cwd
git_cmd(op, cwd, args) == [op |-> op, cwd |-> cwd.s, args |-> args]

\* Path.parent
path_parent(d) ==
    Path((IF is_absolute(d.s) THEN <<"/">> ELSE <<>>)
         \o join_slash(SubSeq(path_parts(d.s), 1, Len(path_parts(d.s)) - 1)))

\* the directory "git clone <fname>" creates in the directory it is run in
clone_directory(fname) == Str(path_name(url_path(fname.s)))

\* Git(parent).git_exec(["clone", str(fname)]): Git() raises when parent is no
\* directory, git fails when the directory to create exists
git_clone(f, parent, fname, t) ==
    IF ~isdir(f, parent.s) THEN [raised |-> TRUE, fs |-> f, cmds |-> <<>>]
    ELSE IF exists(f, path_join(parent, clone_directory(fname)).s)
    THEN [raised |-> TRUE, fs |-> f, cmds |-> <<git_cmd("clone", parent, <<fname.s>>)>>]
    ELSE [raised |-> FALSE,
          fs |-> write(f, path_join(parent, clone_directory(fname)).s,
                       entry("dir", t, DirContent)),
          cmds |-> <<git_cmd("clone", parent, <<fname.s>>)>>]

\* the clone is run for every resolve
git_needs_clone_always(f, cached_file) == TRUE

\* if not cached_file.is_dir()
git_needs_clone(f, cached_file) == ~isdir(f, cached_file.s)

\* Git.determine_revision: the first line "git rev-list -n 1 --before=<date>
\* <branch>" prints, None when no commit is that old
determine_revision(effective_date, branch) ==
    IF effective_date.d = FirstDay THEN None
    ELSE Str(<<"@">> \o (IF truthy(branch) THEN branch.s ELSE <<>>))

\* the rev-list command of Git.determine_revision
rev_list_cmd(cwd, effective_date, branch) ==
    git_cmd("rev-list", cwd,
            (IF truthy(effective_date)
             THEN <<<<"-", "-", "b", "e", "f", "o", "r", "e", "=">> \o effective_date.d>>
             ELSE <<>>)
            \o (IF truthy(branch) THEN <<branch.s>> ELSE <<>>))

\* the reset of update_cache, run when a revision is known
git_reset(cwd, revision) ==
    IF truthy(revision) THEN <<git_cmd("reset", cwd, <<revision.s>>)>> ELSE <<>>

\* mutant: the effective date decides also when a revision is given
git_in_workdir_date_first(cwd, revision, branch, effective_date, pull) ==
    IF truthy(effective_date)
    THEN <<rev_list_cmd(cwd, effective_date, branch)>>
         \o git_reset(cwd, determine_revision(effective_date, branch))
    ELSE (IF truthy(branch) THEN <<git_cmd("checkout", cwd, <<branch.s>>)>> ELSE <<>>)
         \o (IF is_true(pull) THEN <<git_cmd("pull", cwd, <<>>)>> ELSE <<>>)
         \o git_reset(cwd, revision)

\* update_cache from "git = Git(cwd)" on: the commands run in the working
\* directory
git_in_workdir(cwd, revision, branch, effective_date, pull) ==
    IF ~truthy(revision) /\ truthy(effective_date)
    THEN <<rev_list_cmd(cwd, effective_date, branch)>>
         \o git_reset(cwd, determine_revision(effective_date, branch))
    ELSE (IF truthy(branch) THEN <<git_cmd("checkout", cwd, <<branch.s>>)>> ELSE <<>>)
         \o (IF is_true(pull) THEN <<git_cmd("pull", cwd, <<>>)>> ELSE <<>>)
         \o git_reset(cwd, revision)

\* update_cache once the clone, if any, was run: Git(cwd) raises when the
\* working directory does not exist
git_after_clone(cloned, cached_file, kv) ==
    IF cloned.raised THEN cloned
    ELSE IF ~isdir(cloned.fs, cached_file.s)
    THEN [raised |-> TRUE, fs |-> cloned.fs, cmds |-> cloned.cmds]
    ELSE [raised |-> FALSE, fs |-> cloned.fs,
          cmds |-> cloned.cmds
                   \o git_in_workdir(cached_file, dict_get(kv, opt_revision),
                                     dict_get(kv, opt_branch),
                                     dict_get(kv, opt_effective_date),
                                     dict_get(kv, opt_pull))]

\* GitFileMatcher.update_cache: [raised, fs, cmds]
git_update_cache(f, fname, cached_file, kv, t) ==
    git_after_clone(IF git_needs_clone(f, cached_file)
                    THEN git_clone(f, path_parent(cached_file), fname, t)
                    ELSE [raised |-> FALSE, fs |-> f, cmds |-> <<>>],
                    cached_file, kv)

\* GitFileMatcher.is_cache_eligible
git_is_cache_eligible == FALSE

\* get_or_update_cache of the git handler from the update on: [value, fs,
\* raised, cmds]
git_cache_lookup(got, cached_file) ==
    [value |-> IF ~got.raised /\ exists(got.fs, cached_file.s) THEN cached_file ELSE None,
     fs |-> got.fs, raised |-> got.raised, cmds |-> got.cmds]

\* get_or_update_cache of the git handler once its cache directory was looked
\* after
git_cache_in_dir(dir, fname, cached_file, kv, t) ==
    IF dir.raised THEN [value |-> None, fs |-> dir.fs, raised |-> TRUE, cmds |-> <<>>]
    ELSE git_cache_lookup(IF ~exists(dir.fs, cached_file.s) \/ ~git_is_cache_eligible
                          THEN git_update_cache(dir.fs, fname, cached_file, kv, t)
                          ELSE [raised |-> FALSE, fs |-> dir.fs, cmds |-> <<>>],
                          cached_file)

\* if not self.cache_dir: return None
git_no_cache_dir(h, f, fname) ==
    [value |-> None, fs |-> f, raised |-> FALSE, cmds |-> <<>>]

\* BaseFileMatcher.get_or_update_cache with the git handler's cache_filename,
\* is_cache_eligible and update_cache
git_get_or_update_cache(h, f, fname, kv, t) ==
    IF ~truthy(h.cache_dir) THEN git_no_cache_dir(h, f, fname)
    ELSE IF git_cache_filename(f, fname).raised
    THEN [value |-> None, fs |-> f, raised |-> TRUE, cmds |-> <<>>]
    ELSE git_cache_in_dir(IF exists(f, h.cache_dir.s) THEN [raised |-> FALSE, fs |-> f]
                          ELSE mkdir(f, h.cache_dir, t),
                          fname,
                          path_join(h.cache_dir, Str(git_cache_filename(f, fname).name)),
                          kv, t)

\* GitFileMatcher.resolve from the get_or_update_cache call on
git_resolved(got, fname, kv) ==
    [value |-> IF got.raised \/ got.value = None THEN None ELSE path_join(got.value, fname),
     kvargs |-> kv, fs |-> got.fs, raised |-> got.raised, fetch |-> None]

\* GitFileMatcher.resolve
git_resolve(h, fname, kv, f, t) ==
    IF ~truthy(dict_get(kv, opt_git)) THEN declined(dict_without(kv, opt_git), f)
    ELSE git_resolved(git_get_or_update_cache(h, f, dict_get(kv, opt_git),
                                              dict_without(kv, opt_git), t),
                      fname, dict_without(kv, opt_git))

\* the git commands repo[i].resolve(file, **kvargs) runs
handler_commands(h, fname, kv, f, t) ==
    IF h.cls = "GitFileMatcher" /\ truthy(dict_get(kv, opt_git))
    THEN git_get_or_update_cache(h, f, dict_get(kv, opt_git),
                                 dict_without(kv, opt_git), t).cmds
    ELSE <<>>

\* the number of clone commands among cmds
clones_in(cmds) == Cardinality({k \in DOMAIN cmds : cmds[k].op = "clone"})

-----------------------------------------------------------------------------
(* CloudFileMatcher. cloudpathlib is an external collaborator: AnyPath makes  *)
(* a CloudPath of a reference with a cloud scheme, and opening a CloudPath  *)
(* downloads the object to a local file of the client's own cache.         *)

\* s3://b/f.tar.gz: the archive as an object in a bucket
CloudRef == <<"s", "3", ":", "/", "/", "b", "/", "f", ".">> \o ext_tar_gz

\* t/f.tar.gz: fpath.fspath, the local file the client downloads CloudRef to
CloudLocal == <<"t", "/", "f", ".">> \o ext_tar_gz

\* the object: the archive of the tests, one member, c
CloudObject == GzOf(TarOf([m \in {<<"c">>} |-> Plain("member c")]))

\* isinstance(AnyPath(fname), CloudPath)
is_cloud_path(fname) == Len(fname.s) >= 5 /\ SubSeq(fname.s, 1, 5) = <<"s", "3", ":", "/", "/">>

\* mutant: the local file is returned as a cloud reference again
cloud_local_as_cloud(fname) == Str(CloudRef)

\* Path(fpath.fspath)
cloud_local(fname) == Path(CloudLocal)

\* CloudFileMatcher.resolve: fpath.open("rb", **kvargs) takes no option of
\* the bag and fails for an object that is not there
cloud_resolve(h, fname, kv, f, t, content) ==
    IF ~is_cloud_path(fname) THEN declined(kv, f)
    ELSE IF kv # EmptyDict \/ fname.s # CloudRef THEN [declined(kv, f) EXCEPT !.raised = TRUE]
    ELSE [value |-> cloud_local(fname), kvargs |-> kv,
          fs |-> write(f, CloudLocal, entry("file", t, content)),
          raised |-> FALSE, fetch |-> None]

-----------------------------------------------------------------------------

\* repo[i].resolve(file, **kvargs)
handler_resolve(h, fname, kv, f, t) ==
    IF h.cls = "GitFileMatcher" THEN git_resolve(h, fname, kv, f, t)
    ELSE IF h.cls = "CloudFileMatcher"
    THEN cloud_resolve(h, fname, kv, f, t, CloudObject)
    ELSE IF h.cls \in {"TarFileMatcher", "ZipFileMatcher"} THEN tar_resolve(h, fname, kv, f, t)
    ELSE gz_resolve(h, fname, kv, f, t)

-----------------------------------------------------------------------------
(* FileCache *)

\* the directory an engine with a cache is constructed with
CacheRoot == Path(<<"k">>)

\* mutant: a subdirectory is named also when the engine has no cache root
cache_subdir_without_root(root, subdir) ==
    IF root = None THEN Path(subdir) ELSE path_join(root, Str(subdir))

\* FileCache.cache_subdir
cache_subdir(root, subdir) == IF root = None THEN None ELSE path_join(root, Str(subdir))

\* shutil.rmtree(path, onerror=on_rm_error): a missing path makes
\* on_rm_error's chmod raise; a plain file is unlinked by on_rm_error, whose
\* chmod raises when rmtree reports its next failure on the same path
rmtree_on_rm_error(f, path) ==
    IF ~exists(f, path.s) THEN [raised |-> TRUE, fs |-> f]
    ELSE [raised |-> ~isdir(f, path.s), fs |-> rmtree(f, path.s)]

\* self.cache_dir.mkdir() after the whole tree was removed
recreate_root(removed, root, t) ==
    IF removed.raised THEN removed ELSE mkdir(removed.fs, root, t)

\* mutant: the named subdirectory is ignored and the whole tree removed
clear_cache_whole(root, f, subdir, t) ==
    IF ~truthy(root) THEN [raised |-> FALSE, fs |-> f]
    ELSE recreate_root(rmtree_on_rm_error(f, root), root, t)

\* FileCache.clear_cache
clear_cache(root, f, subdir, t) ==
    IF ~truthy(root) THEN [raised |-> FALSE, fs |-> f]
    ELSE IF truthy(subdir) THEN rmtree_on_rm_error(f, path_join(root, subdir))
    ELSE recreate_root(rmtree_on_rm_error(f, root), root, t)

\* list.insert(p, x) for p > 0
list_insert(l, p, x) ==
    LET at == IF p > Len(l) THEN Len(l) ELSE p
    IN  SubSeq(l, 1, at) \o <<x>> \o SubSeq(l, at + 1, Len(l))

\* FileCache.register
register(l, matcher, insert) ==
    IF insert <= 0 THEN Append(l, matcher) ELSE list_insert(l, insert, matcher)

\* mutant: the loop stops one handler early
loop_continues_short(idx, l) == idx < Len(l) - 1

\* the while condition of FileCache.resolve
loop_continues(idx, l) == idx < Len(l)

\* mutant: the index is not reset after a match
dispatch_next_no_restart(idx, current, cached_file) ==
    IF truthy(cached_file) THEN [i |-> idx + 1, file |-> cached_file]
    ELSE [i |-> idx + 1, file |-> current]

\* the body of the loop after the handler returned: restart at the head
\* with the produced reference, or try the next handler
dispatch_next(idx, current, cached_file) ==
    IF truthy(cached_file) THEN [i |-> 0, file |-> cached_file]
    ELSE [i |-> idx + 1, file |-> current]

\* mutant: every str result becomes a Path
return_value_always_path(f, current) ==
    IF current # None /\ current.type = "str" THEN Path(current.s) ELSE current

\* the value FileCache.resolve returns for its final reference
return_value(f, current) ==
    IF current # None /\ current.type = "str" /\ exists(f, current.s)
    THEN Path(current.s) ELSE current

-----------------------------------------------------------------------------
(* The resolution engine as a state machine: one step per handler call.    *)
(* call, prev, outcome and log observe the latest resolve; they are        *)
(* forgotten when the registry or a source file changes.                   *)

SourceDir == <<"d">>

\* d/f.tar.gz: a gzip-compressed tar archive with one member, c
ArchivePath == SourceDir \o <<"/", "f", ".">> \o ext_tar_gz

ArchiveMembers == [m \in {<<"c">>} |-> Plain("member c")]

\* d/p: a plain file
PlainPath == SourceDir \o <<"/", "p">>

\* d/x.tar: no such file
MissingPath == SourceDir \o <<"/", "x", ".">> \o ext_tar

\* d/f.zip: a zip archive with one member, c, encrypted with the password "s"
ZipPath == SourceDir \o <<"/", "f", ".">> \o ext_zip

ZipPassword == Str(<<"s">>)

WrongPassword == Str(<<"w">>)

\* d/b.tar: a file that is no archive
CorruptPath == SourceDir \o <<"/", "b", ".">> \o ext_tar

\* e/f.tar.gz: another archive with the base name of d/f.tar.gz, in another
\* directory, with one member, e
TwinDir == <<"e">>

TwinPath == TwinDir \o <<"/", "f", ".">> \o ext_tar_gz

TwinMembers == [m \in {<<"e">>} |-> Plain("member e")]

\* the member of d/f.tar.gz once the archive was written anew
RewrittenMembers == [m \in {<<"x">>} |-> Plain("member x")]

\* the files of a world: "faults" has the encrypted zip archive and the
\* corrupt archive, "archives" the two archives of one base name, the others
\* the compressed tar archive and the plain file
InitialFiles(w) ==
    [p \in {SourceDir, CacheRoot.s}
            \cup (IF w = "faults" THEN {ZipPath, CorruptPath}
                  ELSE IF w = "archives" THEN {ArchivePath, TwinDir, TwinPath}
                  ELSE {ArchivePath, PlainPath}) |->
        IF p = ArchivePath THEN entry("file", 0, GzOf(TarOf(ArchiveMembers)))
        ELSE IF p = TwinPath THEN entry("file", 0, GzOf(TarOf(TwinMembers)))
        ELSE IF p = PlainPath THEN entry("file", 0, Plain("plain p"))
        ELSE IF p = ZipPath THEN entry("file", 0, ZipOf(ArchiveMembers, ZipPassword))
        ELSE IF p = CorruptPath THEN entry("file", 0, Plain("no archive"))
        ELSE entry("dir", 0, DirContent)]

\* a handler constructed with the engine's cache subdirectory of its name,
\* or with no cache directory
Constructed(cls, name, root) ==
    {[cls |-> cls, name |-> name, cache_dir |-> d] : d \in {cache_subdir(root, name), None}}

\* the handlers a caller registers in a world
Handlers(w, root) ==
    IF w = "git" THEN Constructed("GitFileMatcher", opt_git, root)
    ELSE IF w = "builtin"
    THEN {[cls |-> "TarFileMatcher", name |-> ext_tar, cache_dir |-> cache_subdir(root, ext_tar)],
          [cls |-> "GzFileMatcher", name |-> ext_gz, cache_dir |-> cache_subdir(root, ext_gz)],
          [cls |-> "CloudFileMatcher", name |-> <<"c", "l", "o", "u", "d">>,
           cache_dir |-> cache_subdir(root, <<"c", "l", "o", "u", "d">>)],
          [cls |-> "GitFileMatcher", name |-> opt_git, cache_dir |-> cache_subdir(root, opt_git)]}
    ELSE Constructed("TarFileMatcher", ext_tar, root)
         \cup (IF w = "faults" THEN Constructed("ZipFileMatcher", ext_zip, root)
               ELSE Constructed("GzFileMatcher", ext_gz, root))

\* a resolve call with no options
plain_call(f) == [fname |-> f, kvargs |-> EmptyDict]

\* a repository reference as in the tests: scheme://host/user/project
GitRef == <<"h", ":", "/", "/", "g", "/", "u", "/", "p">>

\* a repository reference with no project name
NoProjectRef == <<"h", ":", "/", "/", "g", "/", "u">>

\* no option, or the option key with one of the values
option(key, values) == {EmptyDict} \cup {(key :> v) : v \in values}

\* the option bags of a git resolve, without the repository option
GitOptions ==
    {b @@ r @@ d @@ p :
        b \in option(opt_branch, {Str(<<"b">>)}),
        r \in option(opt_revision, {Str(<<"r">>)}),
        d \in option(opt_effective_date, {datetime(FirstDay), datetime(<<"1">>)}),
        p \in option(opt_pull, {Bool(TRUE), Bool(FALSE)})}

\* the resolve calls a caller makes in a world
Calls(w) ==
    IF w = "git"
    THEN {plain_call(Str(<<"c">>))}
         \cup {[fname |-> Str(<<"c">>), kvargs |-> (opt_git :> Str(ref)) @@ o] :
                    ref \in {GitRef, NoProjectRef}, o \in GitOptions}
    ELSE IF w = "chain"
    THEN {plain_call(f) :
            f \in {Str(ArchivePath), Path(ArchivePath), Str(ArchivePath \o <<"/", "c">>),
                    Str(PlainPath), Str(MissingPath)}}
         \cup {[fname |-> f, kvargs |-> (ext_tar :> Path(a))] :
                    f \in {Str(<<"c">>), Str(<<"/", "c">>)}, a \in {ArchivePath, MissingPath}}
    ELSE IF w = "archives"
    THEN {plain_call(Str(ArchivePath)), plain_call(Str(TwinPath))}
    ELSE IF w = "builtin"
    THEN {plain_call(Str(ArchivePath \o <<"/", "c">>)), plain_call(Str(CloudRef)),
          plain_call(Str(PlainPath))}
         \cup {[fname |-> Str(<<"c">>), kvargs |-> (ext_tar :> Path(a))] :
                    a \in {ArchivePath, MissingPath}}
         \cup {[fname |-> Str(<<"c">>), kvargs |-> (opt_git :> Str(GitRef)) @@ o] :
                    o \in {EmptyDict, (opt_revision :> Str(<<"r">>)),
                           (ext_tar :> Path(ArchivePath))}}
    ELSE IF w = "faults"
    THEN {plain_call(Str(ZipPath)), plain_call(Str(CorruptPath))}
         \cup {[fname |-> f, kvargs |-> (opt_pwd :> pw)] :
                    f \in {Str(ZipPath), Str(ZipPath \o <<"/", "c">>)},
                    pw \in {ZipPassword, WrongPassword}}
         \cup {[fname |-> Str(<<"c">>),
                 kvargs |-> (ext_zip :> Path(ZipPath)) @@ (opt_pwd :> ZipPassword)]}
    ELSE {plain_call(Str(ArchivePath)), plain_call(Str(ArchivePath \o <<"/", "c">>))}

\* the compound reference "A/p" of a call that names the container A in the
\* tar option and the inner path p as its reference
compound_of(c) ==
    IF ext_tar \in DOMAIN c.kvargs
    THEN plain_call(Str(c.kvargs[ext_tar].s \o <<"/">> \o c.fname.s))
    ELSE c

\* one call names a container in the option, the other is its compound reference
twins(c1, c2) == c1 # c2 /\ compound_of(c1) = compound_of(c2)

\* what a resolve remembers of the resolve before it: its outcome when it
\* had the same arguments, the value it returned when it was the twin call
remembered(c, before, ended) ==
    IF before = None \/ ended = None THEN None
    ELSE IF c = before THEN ended
    ELSE IF twins(c, before) /\ ended.kind = "returned"
         THEN [kind |-> "twin", value |-> ended.value]
         ELSE None

\* the archive of a world that is touched
Archive(w) == IF w = "faults" THEN ZipPath ELSE ArchivePath

\* the arguments clear_cache is called with: none, or a handler's name
ClearArgs(w) == {None} \cup {Str(h.name) : h \in Handlers(w, CacheRoot)}

\* no Pipeline was constructed
NoPipeline ==
    /\ pl_pipelines = <<>>
    /\ pl_event_count = 0
    /\ pl_pc = "off"
    /\ pl_calls = <<>>
    /\ pl_last = None

\* deep_get is not called
NoDeepGet ==
    /\ dg_pc = "off"
    /\ dg_args = None
    /\ dg_result = None

\* no Config was constructed
NoConfig ==
    /\ cfg_files = EmptyDict
    /\ cfg_user_config = <<>>
    /\ cfg_config = <<>>
    /\ cfg_last = None

\* no module was imported from a file
NoImport ==
    /\ modules = EmptyDict
    /\ im_last = None

\* the two resolutions that may run at the same time
Resolutions == {1, 2}

\* no resolution runs beside another one
NoConcurrent ==
    /\ cc_pc = [p \in Resolutions |-> "off"]
    /\ cc_dir = [exists |-> FALSE, members |-> {}, mtime |-> 0]
    /\ cc_todo = [p \in Resolutions |-> {}]
    /\ cc_result = [p \in Resolutions |-> None]
    /\ cc_seen = [p \in Resolutions |-> {}]
    /\ cc_wrote = [p \in Resolutions |-> FALSE]
    /\ cc_clock = 0

\* the other modules of the package are not used
NoAux == NoPipeline /\ NoDeepGet /\ NoConfig /\ NoImport /\ NoConcurrent

NoSplit ==
    /\ sc_pc = "off"
    /\ sc_fname = <<>>
    /\ sc_extensions = <<>>
    /\ sc_result = <<None, None>>

\* the engine after FileCache(cache_dir=root), among the files of world w
Constructed_in(w, root, files) ==
    /\ world = w
    /\ cache_dir = root
    /\ fs = files
    /\ repo = <<>>
    /\ clock = 0
    /\ pc = "idle"
    /\ call = None
    /\ prev = None
    /\ i = 0
    /\ file = None
    /\ kvargs = EmptyDict
    /\ outcome = None
    /\ log = <<>>
    /\ made = EmptyDict
    /\ git_cmds = <<>>
    /\ git_clones = 0

\* the engine of the tests: an existing cache root, the compressed archive
Idle == Constructed_in("chain", CacheRoot, InitialFiles("chain"))

Init == NoSplit /\ NoAux /\ Idle

\* repo.register(matcher, insert)
Register ==
    /\ pc = "idle"
    /\ Len(repo) < MaxRepo
    /\ \E matcher \in Handlers(world, cache_dir), insert \in -1..MaxRepo :
        /\ \A k \in DOMAIN repo : repo[k].cls # matcher.cls
        /\ repo' = register(repo, matcher, insert)
        /\ outcome' = [kind |-> "registered", insert |-> insert]
    /\ call' = None
    /\ prev' = None
    /\ log' = <<>>
    /\ UNCHANGED <<world, cache_dir, fs, clock, pc, i, file, kvargs, made, git_cmds, git_clones>>

\* repo.resolve(fname, **kvargs) is entered
ResolveStart ==
    /\ pc = "idle"
    /\ \E c \in Calls(world) :
        /\ call' = c
        /\ prev' = remembered(c, call, outcome)
        /\ file' = c.fname
        /\ kvargs' = c.kvargs
    /\ i' = 0
    /\ pc' = "dispatching"
    /\ outcome' = None
    /\ log' = <<>>
    /\ git_clones <= MaxClones
    /\ git_cmds' = <<>>
    /\ UNCHANGED <<world, cache_dir, repo, fs, clock, made, git_clones>>

\* the loop body once the handler returned r
HandlerReturned(r) ==
    /\ log' = Append(log, [idx |-> i, file |-> file, kvargs |-> kvargs, value |-> r.value,
                           returned |-> r.kvargs, raised |-> r.raised, fetch |-> r.fetch,
                           made_from |-> IF r.fetch # None /\ r.fetch.artifact \in DOMAIN made
                                         THEN made[r.fetch.artifact] ELSE -1])
    /\ fs' = r.fs
    /\ made' = IF r.fetch # None /\ r.fetch.produced
               THEN [a \in DOMAIN made \cup {r.fetch.artifact} |->
                        IF a = r.fetch.artifact THEN fs[r.fetch.source].mtime
                        ELSE made[a]]
               ELSE made
    /\ IF r.raised
       THEN /\ pc' = "idle"
            /\ outcome' = [kind |-> "raised"]
            /\ UNCHANGED <<i, file, kvargs>>
       ELSE /\ i' = dispatch_next(i, file, r.value).i
            /\ file' = dispatch_next(i, file, r.value).file
            /\ kvargs' = r.kvargs
            /\ UNCHANGED <<pc, outcome>>

\* one pass of the while loop: the handler at index i is called
HandlerStep ==
    /\ pc = "dispatching"
    /\ loop_continues(i, repo)
    /\ HandlerReturned(handler_resolve(repo[i + 1], file, kvargs, fs, clock))
    /\ git_cmds' = git_cmds \o handler_commands(repo[i + 1], file, kvargs, fs, clock)
    /\ git_clones' = git_clones + clones_in(handler_commands(repo[i + 1], file, kvargs, fs, clock))
    /\ UNCHANGED <<world, cache_dir, repo, clock, call, prev>>

\* the loop is left and the final reference is returned
ResolveReturn ==
    /\ pc = "dispatching"
    /\ ~loop_continues(i, repo)
    /\ outcome' = [kind |-> "returned", value |-> return_value(fs, file)]
    /\ pc' = "idle"
    /\ UNCHANGED <<world, cache_dir, repo, fs, clock, call, prev, i, file, kvargs, log, made,
                   git_cmds, git_clones>>

\* time passes
Tick ==
    /\ clock < MaxClock
    /\ clock' = clock + 1
    /\ UNCHANGED <<world, cache_dir, repo, fs, pc, call, prev, i, file, kvargs, outcome, log, made,
                   git_cmds, git_clones>>

\* the archive is touched: its modification time becomes now
Touch ==
    /\ pc = "idle"
    /\ fs[Archive(world)].mtime # clock
    /\ fs' = [fs EXCEPT ![Archive(world)].mtime = clock]
    /\ call' = None
    /\ prev' = None
    /\ outcome' = None
    /\ log' = <<>>
    /\ UNCHANGED <<world, cache_dir, repo, clock, pc, i, file, kvargs, made, git_cmds, git_clones>>

\* repo.clear_cache(subdir); the artifacts removed are forgotten
ClearCache ==
    /\ pc = "idle"
    /\ \E subdir \in ClearArgs(world) :
        /\ fs' = clear_cache(cache_dir, fs, subdir, clock).fs
        /\ outcome' = [kind |-> "cleared", subdir |-> subdir,
                       raised |-> clear_cache(cache_dir, fs, subdir, clock).raised]
    /\ made' = [a \in DOMAIN made \cap DOMAIN fs' |-> made[a]]
    /\ call' = None
    /\ prev' = None
    /\ log' = <<>>
    /\ git_cmds' = <<>>
    /\ git_clones' = 0
    /\ UNCHANGED <<world, cache_dir, repo, clock, pc, i, file, kvargs>>

Next ==
    \/ (Register /\ UNCHANGED <<sc_vars, aux_vars>>)
    \/ (ResolveStart /\ UNCHANGED <<sc_vars, aux_vars>>)
    \/ (HandlerStep /\ UNCHANGED <<sc_vars, aux_vars>>)
    \/ (ResolveReturn /\ UNCHANGED <<sc_vars, aux_vars>>)
    \/ (Tick /\ UNCHANGED <<sc_vars, aux_vars>>)
    \/ (Touch /\ UNCHANGED <<sc_vars, aux_vars>>)

Spec == Init /\ [][Next]_vars

\* the engine among the encrypted zip archive and the corrupt archive
InitFaults == NoSplit /\ NoAux /\ Constructed_in("faults", CacheRoot, InitialFiles("faults"))

SpecFaults == InitFaults /\ [][Next]_vars

\* the engine with its cache lifecycle operations
NextLifecycle ==
    \/ Next
    \/ (ClearCache /\ UNCHANGED <<sc_vars, aux_vars>>)

\* InitialFiles without the cache root directory
WithoutRoot(files) == [p \in DOMAIN files \ {CacheRoot.s} |-> files[p]]

\* the engine constructed with a cache root that exists, one that does not
\* exist yet, or with no cache root
InitLifecycle ==
    /\ NoSplit
    /\ NoAux
    /\ \E root \in {CacheRoot, None} :
        \E files \in {InitialFiles("lifecycle"), WithoutRoot(InitialFiles("lifecycle"))} :
            Constructed_in("lifecycle", root, files)

SpecLifecycle == InitLifecycle /\ [][NextLifecycle]_vars

\* the engine with the git handler, with and without a cache root
InitGit ==
    /\ NoSplit
    /\ NoAux
    /\ \E root \in {CacheRoot, None} : Constructed_in("git", root, InitialFiles("git"))

NextGit ==
    \/ (Register /\ UNCHANGED <<sc_vars, aux_vars>>)
    \/ (ResolveStart /\ UNCHANGED <<sc_vars, aux_vars>>)
    \/ (HandlerStep /\ UNCHANGED <<sc_vars, aux_vars>>)
    \/ (ResolveReturn /\ UNCHANGED <<sc_vars, aux_vars>>)
    \/ (ClearCache /\ UNCHANGED <<sc_vars, aux_vars>>)

SpecGit == InitGit /\ [][NextGit]_vars

\* repo.register(matcher, insert) for the built-in handlers, each
\* constructed with its cache subdirectory, before the first resolve
RegisterBuiltin ==
    /\ pc = "idle"
    /\ call = None
    /\ fs = InitialFiles(world)
    /\ Len(repo) < MaxHandlers
    /\ \E matcher \in Handlers(world, cache_dir), insert \in -1..Len(repo) :
        /\ \A k \in DOMAIN repo : repo[k].cls # matcher.cls
        /\ repo' = register(repo, matcher, insert)
        /\ outcome' = [kind |-> "registered", insert |-> insert]
    /\ UNCHANGED <<world, cache_dir, fs, clock, pc, call, prev, log, i, file, kvargs, made,
                   git_cmds, git_clones>>

\* one pass of the while loop, followed for MaxPasses passes
BuiltinStep == Len(log) < MaxPasses /\ HandlerStep

\* the engine with the built-in handlers in any order
InitBuiltin == NoSplit /\ NoAux /\ Constructed_in("builtin", CacheRoot, InitialFiles("builtin"))

NextBuiltin ==
    \/ (RegisterBuiltin /\ UNCHANGED <<sc_vars, aux_vars>>)
    \/ (ResolveStart /\ UNCHANGED <<sc_vars, aux_vars>>)
    \/ (BuiltinStep /\ UNCHANGED <<sc_vars, aux_vars>>)
    \/ (ResolveReturn /\ UNCHANGED <<sc_vars, aux_vars>>)

SpecBuiltin == InitBuiltin /\ [][NextBuiltin]_vars

\* d/f.tar.gz is written anew, with another member, now
Rewrite ==
    /\ pc = "idle"
    /\ world = "archives"
    /\ fs' = [fs EXCEPT ![ArchivePath] =
                entry("file", clock,
                      GzOf(TarOf(IF fs[ArchivePath].content.inner.members = ArchiveMembers
                                 THEN RewrittenMembers ELSE ArchiveMembers)))]
    /\ call' = None
    /\ prev' = None
    /\ outcome' = None
    /\ log' = <<>>
    /\ UNCHANGED <<world, cache_dir, repo, clock, pc, i, file, kvargs, made, git_cmds, git_clones>>

\* the engine among two archives of one base name, one of them rewritten
\* from time to time
InitArchives == NoSplit /\ NoAux /\ Constructed_in("archives", CacheRoot, InitialFiles("archives"))

NextArchives ==
    \/ (Register /\ UNCHANGED <<sc_vars, aux_vars>>)
    \/ (ResolveStart /\ UNCHANGED <<sc_vars, aux_vars>>)
    \/ (HandlerStep /\ UNCHANGED <<sc_vars, aux_vars>>)
    \/ (ResolveReturn /\ UNCHANGED <<sc_vars, aux_vars>>)
    \/ (Tick /\ UNCHANGED <<sc_vars, aux_vars>>)
    \/ (Rewrite /\ UNCHANGED <<sc_vars, aux_vars>>)

SpecArchives == InitArchives /\ [][NextArchives]_vars

-----------------------------------------------------------------------------
(* pipeline: Event, PipelineStep and Pipeline. A step is [name, returns],   *)
(* returns being what its main returns; an event is [meta, trace], each     *)
(* "absent", a container ("dict", "list") or "type" when the key holds the  *)
(* class itself.                                                           *)

int(n) == [type |-> "int", v |-> n]

\* what a step's main returns: None, True, or a true value that is not True
StepReturns == {None, Bool(TRUE), int(1)}

PipelineNames == {"", "g"}

Event(meta, trace) == [meta |-> meta, trace |-> trace]

\* Event(), Event(_meta_={}) and Event(_meta_={}, _trace_=[])
Events == {Event("absent", "absent"), Event("dict", "absent"), Event("dict", "list")}

\* Event.meta: self.setdefault("_meta_", dict) stores the class dict when the
\* key is missing
event_meta(e) == [e EXCEPT !.meta = IF e.meta = "absent" THEN "type" ELSE e.meta]

\* event.meta[key] = value raises on the class dict
meta_assign_raises(e) == event_meta(e).meta = "type"

\* Event.trace: self.setdefault("_trace_", list) stores the class list when
\* the key is missing, and append on the class raises
event_trace(e) ==
    [event |-> [e EXCEPT !.trace = IF e.trace = "absent" THEN "type" ELSE e.trace],
     raised |-> e.trace \in {"absent", "type"}]

\* a step method invoked: op on the step named step, for the n-th event
step_call(op, step, n) == [op |-> op, step |-> step, event |-> n]

has_pipeline(ps, name) == \E k \in DOMAIN ps : ps[k].name = name

\* self.pipelines[name]
steps_of(ps, name) == ps[CHOOSE k \in DOMAIN ps : ps[k].name = name].steps

\* Pipeline.add_pipeline: self.pipelines.setdefault(name, [])
add_pipeline(ps, name) ==
    IF has_pipeline(ps, name) THEN ps ELSE Append(ps, [name |-> name, steps |-> <<>>])

\* Pipeline.add_step: self.pipelines[name].append(step)
add_step(ps, name, step) ==
    [k \in DOMAIN ps |->
        IF ps[k].name = name THEN [ps[k] EXCEPT !.steps = Append(@, step)] ELSE ps[k]]

RECURSIVE foreach_step(_)
\* Pipeline.foreach_step: the steps of all pipelines, in insertion order
foreach_step(ps) ==
    IF ps = <<>> THEN <<>> ELSE Head(ps).steps \o foreach_step(Tail(ps))

\* Pipeline.initialize
initialize(ps) ==
    [k \in DOMAIN foreach_step(ps) |-> step_call("initialize", foreach_step(ps)[k].name, 0)]

\* Pipeline.finalize_steps
finalize_steps(ps) ==
    [k \in DOMAIN foreach_step(ps) |-> step_call("finalize", foreach_step(ps)[k].name, 0)]

\* if self.exec_step(pipeline, step, event) is True: break
exec_stops(returned) == returned = Bool(TRUE)

RECURSIVE _exec_pipeline(_, _, _)
\* Pipeline._exec_pipeline: [calls, raised]
_exec_pipeline(pipe, event, n) ==
    IF pipe = <<>> THEN [calls |-> <<>>, raised |-> FALSE]
    ELSE IF event_trace(event).raised THEN [calls |-> <<>>, raised |-> TRUE]
    ELSE IF exec_stops(Head(pipe).returns)
    THEN [calls |-> <<step_call("main", Head(pipe).name, n)>>, raised |-> FALSE]
    ELSE [calls |-> <<step_call("main", Head(pipe).name, n)>>
                    \o _exec_pipeline(Tail(pipe), event_trace(event).event, n).calls,
          raised |-> _exec_pipeline(Tail(pipe), event_trace(event).event, n).raised]

\* Pipeline.process_event for the n-th event: [calls, raised]
process_event(ps, pipeline, event, n) ==
    IF meta_assign_raises(event) \/ ~has_pipeline(ps, pipeline)
    THEN [calls |-> <<>>, raised |-> TRUE]
    ELSE _exec_pipeline(steps_of(ps, pipeline), event_meta(event), n)

\* Pipeline.__enter__: initialize, then finalize_steps; the marker "body"
\* stands for the return into the with block
enter(ps) == initialize(ps) \o finalize_steps(ps) \o <<step_call("body", 0, 0)>>

\* Pipeline.__exit__
exit(ps, exc) == IF exc THEN <<>> ELSE finalize_steps(ps)

\* the variables the pipeline leaves alone
not_pl_vars == <<sc_vars, fc_vars, dg_vars, cfg_vars, im_vars, cc_vars>>

\* Pipeline(step_class=PipelineStep, step_dir=None)
PipelineConstructed ==
    /\ pl_pipelines = <<>>
    /\ pl_event_count = 0
    /\ pl_pc = "constructed"
    /\ pl_calls = <<>>
    /\ pl_last = None

\* pipe.add_pipeline(name)
PlAddPipeline ==
    /\ pl_pc = "constructed"
    /\ \E name \in PipelineNames :
        /\ pl_pipelines' = add_pipeline(pl_pipelines, name)
        /\ pl_last' = [op |-> "add_pipeline", pipeline |-> name, raised |-> FALSE]
    /\ UNCHANGED <<pl_event_count, pl_pc, pl_calls>>
    /\ UNCHANGED not_pl_vars

\* pipe.add_step(name, step): a KeyError when the pipeline was not added
PlAddStep ==
    /\ pl_pc = "constructed"
    /\ Len(foreach_step(pl_pipelines)) < MaxSteps
    /\ \E name \in PipelineNames, returns \in StepReturns :
        /\ pl_pipelines' =
                IF has_pipeline(pl_pipelines, name)
                THEN add_step(pl_pipelines, name,
                              [name |-> Len(foreach_step(pl_pipelines)) + 1,
                               returns |-> returns])
                ELSE pl_pipelines
        /\ pl_last' = [op |-> "add_step", pipeline |-> name,
                       raised |-> ~has_pipeline(pl_pipelines, name)]
    /\ UNCHANGED <<pl_event_count, pl_pc, pl_calls>>
    /\ UNCHANGED not_pl_vars

\* pipe.process_event(pipeline, event)
PlProcessEvent ==
    /\ pl_pc \in {"constructed", "body"}
    /\ pl_event_count < MaxEvents
    /\ pl_event_count' = pl_event_count + 1
    /\ \E pipeline \in PipelineNames, event \in Events :
        /\ pl_calls' = pl_calls
                       \o process_event(pl_pipelines, pipeline, event, pl_event_count + 1).calls
        /\ pl_last' = [op |-> "process_event", pipeline |-> pipeline, event |-> event,
                       raised |-> process_event(pl_pipelines, pipeline, event,
                                                pl_event_count + 1).raised]
    /\ UNCHANGED <<pl_pipelines, pl_pc>>
    /\ UNCHANGED not_pl_vars

\* with pipe: the block is entered
PlEnter ==
    /\ pl_pc = "constructed"
    /\ pl_pc' = "body"
    /\ pl_calls' = pl_calls \o enter(pl_pipelines)
    /\ pl_last' = [op |-> "enter", raised |-> FALSE]
    /\ UNCHANGED <<pl_pipelines, pl_event_count>>
    /\ UNCHANGED not_pl_vars

\* the with block is left, with the exception of the last call when that one
\* raised and the block did not catch it
PlExit ==
    /\ pl_pc = "body"
    /\ pl_pc' = "exited"
    /\ \E exc \in {FALSE, pl_last.raised} :
        /\ pl_calls' = pl_calls \o exit(pl_pipelines, exc)
        /\ pl_last' = [op |-> "exit", raised |-> exc]
    /\ UNCHANGED <<pl_pipelines, pl_event_count>>
    /\ UNCHANGED not_pl_vars

InitPipeline ==
    NoSplit /\ Idle /\ NoDeepGet /\ NoConfig /\ NoImport /\ NoConcurrent /\ PipelineConstructed

NextPipeline ==
    \/ PlAddPipeline
    \/ PlAddStep
    \/ PlProcessEvent
    \/ PlEnter
    \/ PlExit

SpecPipeline == InitPipeline /\ [][NextPipeline]_vars

-----------------------------------------------------------------------------
(* dict_utils: path_split and deep_get. A dict is [type |-> "dict", items], *)
(* items being key |-> value; a list is [type |-> "list", items]; a call    *)
(* that can raise returns [raised, value], raised being "" or the name of   *)
(* the exception.                                                          *)

dict(items) == [type |-> "dict", items |-> items]

list(items) == [type |-> "list", items |-> items]

\* the default of deep_get when none is passed
__MISSING__ == [type |-> "__MISSING__"]

RECURSIVE split(_, _)
\* s.split(separator), for a separator of one character
split(s, separator) ==
    IF find(s, <<separator>>) = -1 THEN <<s>>
    ELSE <<slice_to(s, find(s, <<separator>>))>>
         \o split(slice_from(s, find(s, <<separator>>) + 1), separator)

\* dict_utils.path_split
path_split(path, separator) ==
    SelectSeq(IF path.type = "str" THEN split(path.s, separator) ELSE path.items,
              LAMBDA x : x # <<>>)

returned(value) == [raised |-> "", value |-> value]

raises(exception) == [raised |-> exception, value |-> None]

RECURSIVE walk(_, _)
\* for _elem in _keys: _dict = _dict[_elem]
walk(_dict, _keys) ==
    IF _keys = <<>> THEN returned(_dict)
    ELSE IF _dict.type # "dict" THEN raises("TypeError")
    ELSE IF Head(_keys) \notin DOMAIN _dict.items THEN raises("KeyError")
    ELSE walk(_dict.items[Head(_keys)], Tail(_keys))

\* deep_get when no key is left: if not _keys
deep_get_no_keys(_dict, default) ==
    IF default # __MISSING__ THEN returned(default) ELSE raises("KeyError")

\* deep_get once the keys were walked
deep_get_walked(walked, default) ==
    IF walked.raised # "" /\ default # __MISSING__ THEN returned(default) ELSE walked

\* dict_utils.deep_get
deep_get(_dict, _keys, default, separator) ==
    IF path_split(_keys, separator) = <<>> THEN deep_get_no_keys(_dict, default)
    ELSE deep_get_walked(walk(_dict, path_split(_keys, separator)), default)

\* the keys of the dicts
Keys == {<<"a">>, <<"x">>}

\* the values that are no dict
Scalars == {int(1), int(2), Str(<<"v">>)}

\* the dicts with at most one key whose values are in values
DictsOver(values) ==
    {dict(EmptyDict)} \cup {dict(k :> v) : k \in Keys, v \in values}

\* the dicts of the calls, nested up to MaxDepth deep
RECURSIVE DictsUpTo(_)
DictsUpTo(depth) ==
    IF depth = 0 THEN {dict(EmptyDict)}
    ELSE DictsOver(Scalars \cup DictsUpTo(depth - 1))

\* d = dict(a=1, d=dict(key="kkkk")) of the tests, with the key x for d
TestDict == dict((<<"a">> :> int(1)) @@ (<<"x">> :> dict(<<"a">> :> Str(<<"v">>))))

\* the paths of the calls: str and list, empty, of separators only, and named
Paths ==
    {Str(<<>>), Str(<<".">>), Str(<<".", ".">>), Str(<<"/">>), list(<<>>),
     Str(<<"a">>), Str(<<"x", ".", "a">>), Str(<<"x", "/", "a">>), Str(<<".", "x", ".", ".", "a">>),
     Str(<<"a", ".", "a">>), Str(<<"x", ".", "x">>),
     list(<<<<"a">>>>), list(<<<<"x">>, <<"a">>>>), list(<<<<"x">>, <<>>, <<"a">>>>)}

\* the variables deep_get leaves alone
not_dg_vars == <<sc_vars, fc_vars, pl_vars, cfg_vars, im_vars, cc_vars>>

DeepGetInit ==
    /\ NoSplit /\ Idle /\ NoPipeline /\ NoConfig /\ NoImport /\ NoConcurrent
    /\ dg_pc = "input"
    /\ dg_args \in [dict : DictsUpTo(MaxDepth) \cup {TestDict}, keys : Paths,
                    default : {__MISSING__, None}, separator : {".", "/"}]
    /\ dg_result = None

\* du.deep_get(d, keys, default=..., separator=...)
DeepGetCall ==
    /\ dg_pc = "input"
    /\ dg_result' = deep_get(dg_args.dict, dg_args.keys, dg_args.default, dg_args.separator)
    /\ dg_pc' = "done"
    /\ UNCHANGED dg_args
    /\ UNCHANGED not_dg_vars

DeepGetNext == DeepGetCall

SpecDeepGet == DeepGetInit /\ [][DeepGetNext]_vars

-----------------------------------------------------------------------------
(* pyconfig.Config: the layers, set and get_value. The config files are     *)
(* given by their CONFIG dicts; the search for them and their import are    *)
(* not part of the model.                                                   *)

\* the name of the default config and of the user configs of the tests
default_config == "config"

UserConfigs == {"dev", "linux"}

\* the key load_config adds to every CONFIG
file_key == <<"__file__">>

\* module.CONFIG["__file__"] = file.resolve()
with_file(config, name) ==
    dict([k \in DOMAIN config.items \cup {file_key} |->
            IF k = file_key THEN Str(<<name>>) ELSE config.items[k]])

\* Config.load_config: self.config.insert(1, config)
load_config(layers, config, name) ==
    <<layers[1], with_file(config, name)>> \o SubSeq(layers, 2, Len(layers))

RECURSIVE load_user_configs(_, _, _)
\* for config in self.user_config: self.load_user_config(config)
load_user_configs(layers, files, names) ==
    IF names = <<>> THEN layers
    ELSE load_user_configs(load_config(layers, files[Head(names)], Head(names)),
                           files, Tail(names))

\* Config.__init__: self.config = [{}], the default config, the user configs
Config(files, user_config) ==
    load_user_configs(load_config(<<dict(EmptyDict)>>, files[default_config], default_config),
                      files, user_config)

RECURSIVE get_value_in(_, _)
\* the loop of get_value over the layers: a KeyError moves on to the next layer
get_value_in(layers, path) ==
    IF layers = <<>> THEN raises("KeyError")
    ELSE IF deep_get(Head(layers), list(path), __MISSING__, ".").raised = "KeyError"
    THEN get_value_in(Tail(layers), path)
    ELSE deep_get(Head(layers), list(path), __MISSING__, ".")

\* Config.get_value
get_value(layers, path) == get_value_in(layers, path_split(path, "."))

\* d with value at key
dict_put(d, key, value) ==
    dict([k \in DOMAIN d.items \cup {key} |-> IF k = key THEN value ELSE d.items[k]])

\* obj.setdefault(elem, {})
setdefault(obj, elem) == IF elem \in DOMAIN obj.items THEN obj.items[elem] ELSE dict(EmptyDict)

RECURSIVE set_in(_, _, _)
\* the walk of Config.set from obj on: [raised, value], value being obj after
\* the call
set_in(obj, path, value) ==
    IF Len(path) = 1
    THEN IF obj.type # "dict" THEN [raised |-> "ConfigException", value |-> obj]
         ELSE returned(dict_put(obj, path[1], value))
    ELSE IF obj.type # "dict" THEN [raised |-> "AttributeError", value |-> obj]
    ELSE [raised |-> set_in(setdefault(obj, Head(path)), Tail(path), value).raised,
          value |-> dict_put(obj, Head(path),
                             set_in(setdefault(obj, Head(path)), Tail(path), value).value)]

\* Config.set: [raised, value], value being the layers after the call
set(layers, path, value) ==
    IF path_split(path, ".") = <<>> THEN [raised |-> "ConfigException", value |-> layers]
    ELSE [raised |-> set_in(layers[1], path_split(path, "."), value).raised,
          value |-> <<set_in(layers[1], path_split(path, "."), value).value>>
                    \o Tail(layers)]

RECURSIVE items(_, _)
\* _dict.items() of the keys left, as (key, value) in some order
items(_dict, keys) ==
    IF keys = {} THEN <<>>
    ELSE LET key == CHOOSE k \in keys : TRUE
         IN  <<[key |-> key, value |-> _dict.items[key]]>> \o items(_dict, keys \ {key})

RECURSIVE deep_iter_over(_, _)
\* dict_utils.deep_iter over the items left: every key with its value and
\* its parents, a mapping before the keys below it
deep_iter_over(todo, parent) ==
    IF todo = <<>> THEN <<>>
    ELSE <<[key |-> Head(todo).key, value |-> Head(todo).value, parents |-> parent]>>
         \o (IF Head(todo).value.type = "dict"
             THEN deep_iter_over(items(Head(todo).value, DOMAIN Head(todo).value.items),
                                 Append(parent, Head(todo).key))
             ELSE <<>>)
         \o deep_iter_over(Tail(todo), parent)

\* dict_utils.deep_iter
deep_iter(_dict) == deep_iter_over(items(_dict, DOMAIN _dict.items), <<>>)

RECURSIVE deep_set(_, _, _)
\* dict_utils.deep_set with create=False, replace=True: [raised, value],
\* value being _dict after the call
deep_set(_dict, _keys, value) ==
    IF _dict.type # "dict" THEN [raised |-> "TypeError", value |-> _dict]
    ELSE IF Len(_keys) = 1 THEN returned(dict_put(_dict, _keys[1], value))
    ELSE IF Head(_keys) \notin DOMAIN _dict.items THEN [raised |-> "KeyError", value |-> _dict]
    ELSE [raised |-> deep_set(_dict.items[Head(_keys)], Tail(_keys), value).raised,
          value |-> dict_put(_dict, Head(_keys),
                             deep_set(_dict.items[Head(_keys)], Tail(_keys), value).value)]

RECURSIVE deep_dict_update_with(_, _)
\* the loop of Config._deep_dict_update over what deep_iter yields
deep_dict_update_with(dest, todo) ==
    IF todo = <<>> \/ dest.raised # "" THEN dest
    ELSE deep_dict_update_with(
            deep_set(dest.value, Append(Head(todo).parents, Head(todo).key), Head(todo).value),
            Tail(todo))

\* mutant: a mapping is merged key by key, never put in place as a whole
_deep_dict_update_leaves(dest, source) ==
    deep_dict_update_with(
        dest,
        SelectSeq(deep_iter(source),
                  LAMBDA e : e.value.type # "dict"
                             \/ walk(dest.value, Append(e.parents, e.key)).raised # ""
                             \/ walk(dest.value, Append(e.parents, e.key)).value.type # "dict"))

\* Config._deep_dict_update without substitution
_deep_dict_update(dest, source) == deep_dict_update_with(dest, deep_iter(source))

RECURSIVE to_dict_from(_, _, _)
\* the loop of Config.to_dict over reversed(self.config), from layer k down
to_dict_from(layers, k, rtn) ==
    IF k = 0 \/ rtn.raised # "" THEN rtn
    ELSE to_dict_from(layers, k - 1,
                      IF layers[k].items = EmptyDict THEN rtn
                      ELSE _deep_dict_update(rtn, layers[k]))

\* Config.to_dict() with no root: [raised, value]
to_dict(layers) == to_dict_from(layers, Len(layers), returned(dict(EmptyDict)))

\* the CONFIG dicts of the config files: flat, nested, nested with another
\* key, and with a value where another one has a dict
ConfigDicts ==
    {dict(EmptyDict), dict(<<"a">> :> int(1)), dict(<<"a">> :> int(2)),
     dict(<<"x">> :> dict(<<"a">> :> int(1))), dict(<<"x">> :> dict(<<"a">> :> int(2))),
     dict(<<"x">> :> dict(<<"b">> :> int(2))), dict(<<"x">> :> int(1))}

\* the user_config argument: none, one or both user configs, in either order
UserConfigLists ==
    {<<>>} \cup {<<n>> : n \in UserConfigs}
    \cup {l \in UserConfigs \X UserConfigs : l[1] # l[2]}

\* the paths asked for and set
ConfigPaths ==
    {Str(<<"a">>), Str(<<"x">>), Str(<<"x", ".", "a">>), list(<<<<"x">>, <<"a">>>>),
     Str(<<>>), Str(file_key)}

\* the variables the Config leaves alone
not_cfg_vars == <<sc_vars, fc_vars, pl_vars, dg_vars, im_vars, cc_vars>>

\* cfg = Config(user_config=..., search_path=...)
ConfigInit ==
    /\ NoSplit /\ Idle /\ NoPipeline /\ NoDeepGet /\ NoImport /\ NoConcurrent
    /\ cfg_files \in [UserConfigs \cup {default_config} -> ConfigDicts]
    /\ cfg_user_config \in UserConfigLists
    /\ cfg_config = Config(cfg_files, cfg_user_config)
    /\ cfg_last = None

\* cfg.set(path, value)
CfgSet ==
    /\ \E path \in ConfigPaths \ {Str(file_key)} :
        /\ cfg_config' = set(cfg_config, path, int(3)).value
        /\ cfg_last' = [op |-> "set", path |-> path,
                        result |-> [raised |-> set(cfg_config, path, int(3)).raised,
                                    value |-> None]]
    /\ cfg_config' # cfg_config
    /\ UNCHANGED <<cfg_files, cfg_user_config>>
    /\ UNCHANGED not_cfg_vars

\* cfg.get_value(path)
CfgGetValue ==
    /\ \E path \in ConfigPaths :
        cfg_last' = [op |-> "get_value", path |-> path, result |-> get_value(cfg_config, path)]
    /\ UNCHANGED <<cfg_files, cfg_user_config, cfg_config>>
    /\ UNCHANGED not_cfg_vars

\* cfg.to_dict()
CfgToDict ==
    /\ cfg_last' = [op |-> "to_dict", path |-> None, result |-> to_dict(cfg_config)]
    /\ UNCHANGED <<cfg_files, cfg_user_config, cfg_config>>
    /\ UNCHANGED not_cfg_vars

ConfigNext == CfgSet \/ CfgGetValue \/ CfgToDict

SpecConfig == ConfigInit /\ [][ConfigNext]_vars

-----------------------------------------------------------------------------
(* import_module: the registry of the modules imported from files *)

\* os.path.splitext(name)[0]: name up to its last dot, all of it when it has
\* no dot or only leading dots
splitext_root(name) ==
    LET dots == {k \in DOMAIN name : name[k] = "."}
        last == CHOOSE k \in dots : \A j \in dots : j <= k
    IN  IF dots = {} \/ (\A k \in 1..last : name[k] = ".") THEN name
        ELSE SubSeq(name, 1, last - 1)

\* os.path.splitext(os.path.basename(file))[0]
module_name(module_file) == splitext_root(path_name(module_file.s))

RECURSIVE resolve_parts(_, _)
\* the parts of a path once every ".." has taken back the part before it
resolve_parts(done, parts) ==
    IF parts = <<>> THEN done
    ELSE IF Head(parts) = <<".", ".">>
    THEN resolve_parts(SubSeq(done, 1, Len(done) - 1), Tail(parts))
    ELSE resolve_parts(Append(done, Head(parts)), Tail(parts))

\* the file a path leads to, as the operating system resolves it for
\* file.is_file() and for the import
path_resolve(module_file) == Path(join_slash(resolve_parts(<<>>, path_parts(module_file.s))))

py(dir, name) == Path(<<dir, "/", name, ".", "p", "y">>)

\* the python files there are, and whether their import succeeds
ModuleFiles ==
    [f \in {py(d, n) : d \in {"d", "e"}, n \in {"m", "n", "o", "b"}} |->
        IF module_name(f) = <<"b">> THEN "broken" ELSE "module"]

\* d/../d/m.py: another path to the file d/m.py
OtherPath == Path(<<"d", "/", ".", ".", "/", "d", "/", "m", ".", "p", "y">>)

\* the paths the callers pass: the files there are, ./d//m.py, which pathlib
\* holds equal to d/m.py, another path to d/m.py, and a file that is missing
ImportArgs ==
    DOMAIN ModuleFiles
        \cup {Path(<<".", "/", "d", "/", "/", "m", ".", "p", "y">>), OtherPath, py("d", "x")}

\* file.is_file()
is_module_file(module_file) == path_resolve(module_file) \in DOMAIN ModuleFiles

\* modules.get(name, file) != file
registered_elsewhere(registry, name, module_file) ==
    (IF name \in DOMAIN registry THEN registry[name] ELSE module_file) # module_file

\* import_module_from_file: [raised, modules], modules being the registry
\* after the call
import_module_from_file(registry, module_file) ==
    IF ~is_module_file(module_file)
    THEN [raised |-> "AssertionError", modules |-> registry]
    ELSE IF registered_elsewhere(registry, module_name(module_file), module_file)
    THEN [raised |-> "AttributeError", modules |-> registry]
    ELSE IF ModuleFiles[path_resolve(module_file)] = "broken"
    THEN [raised |-> "Exception", modules |-> registry]
    ELSE [raised |-> "",
          modules |-> [n \in DOMAIN registry \cup {module_name(module_file)} |->
                          IF n = module_name(module_file) THEN module_file ELSE registry[n]]]

\* the variables the import leaves alone
not_im_vars == <<sc_vars, fc_vars, pl_vars, dg_vars, cfg_vars, cc_vars>>

\* import_module.modules is empty when the module is loaded
ImportInit ==
    /\ NoSplit /\ Idle /\ NoPipeline /\ NoDeepGet /\ NoConfig /\ NoConcurrent
    /\ modules = EmptyDict
    /\ im_last = None

\* import_module_from_file(file)
ImportModuleFromFile ==
    /\ \E module_file \in ImportArgs :
        /\ modules' = import_module_from_file(modules, module_file).modules
        /\ im_last' = [file |-> module_file,
                       raised |-> import_module_from_file(modules, module_file).raised,
                       known |-> module_name(module_file) \in DOMAIN modules]
    /\ UNCHANGED not_im_vars

ImportNext == ImportModuleFromFile

SpecImport == ImportInit /\ [][ImportNext]_vars

-----------------------------------------------------------------------------
(* Two resolutions of one archive against one cache directory               *)
(* (TarFileMatcher.get_or_update_cache and update_cache, call by call)      *)

\* the names of the members of the archive, in the order of the archive
SharedMembers == <<"a", "b">>

\* the modification time of the archive
SharedSourceMtime == 1

not_cc_vars == <<sc_vars, fc_vars, pl_vars, dg_vars, cfg_vars, im_vars>>

\* the extraction directory is missing
NoDir == [exists |-> FALSE, members |-> {}, mtime |-> 0]

\* the extraction directory holds the members and was last written at time t
DirOf(members, t) == [exists |-> TRUE, members |-> members, mtime |-> t]

\* mutant: the directory check of update_cache never finds the directory
is_dir_never(d) == FALSE

\* outdir.is_dir()
is_dir(d) == d.exists

\* the first member of the archive that is still to write
next_member(todo) ==
    SharedMembers[CHOOSE k \in DOMAIN SharedMembers :
                      /\ SharedMembers[k] \in todo
                      /\ \A j \in 1..(k - 1) : SharedMembers[j] \notin todo]

\* resolution p goes on with the call named by next
Goes(p, next, d, todo, wrote) ==
    /\ cc_pc' = [cc_pc EXCEPT ![p] = next]
    /\ cc_dir' = d
    /\ cc_todo' = [cc_todo EXCEPT ![p] = todo]
    /\ cc_wrote' = [cc_wrote EXCEPT ![p] = wrote]
    /\ UNCHANGED <<cc_result, cc_seen, cc_clock>>
    /\ UNCHANGED not_cc_vars

\* resolution p ends: get_or_update_cache returns or raises
Ends(p, result) ==
    /\ cc_pc' = [cc_pc EXCEPT ![p] = "done"]
    /\ cc_result' = [cc_result EXCEPT ![p] = result]
    /\ cc_seen' = [cc_seen EXCEPT ![p] = cc_dir.members]
    /\ UNCHANGED <<cc_dir, cc_todo, cc_wrote, cc_clock>>
    /\ UNCHANGED not_cc_vars

\* get_or_update_cache: cached_file.exists()
CcExists(p) ==
    /\ cc_pc[p] = "exists"
    /\ Goes(p, IF cc_dir.exists THEN "is_cache_eligible" ELSE "is_dir",
            cc_dir, cc_todo[p], cc_wrote[p])

\* get_or_update_cache: is_cache_eligible(cached_file, fname), whose
\* cached_file.stat() raises when the directory is gone
CcEligible(p) ==
    /\ cc_pc[p] = "is_cache_eligible"
    /\ IF ~cc_dir.exists THEN Ends(p, raises("FileNotFoundError"))
       ELSE Goes(p, IF cc_dir.mtime > SharedSourceMtime THEN "return" ELSE "is_dir",
                 cc_dir, cc_todo[p], cc_wrote[p])

\* update_cache: outdir.is_dir()
CcIsDir(p) ==
    /\ cc_pc[p] = "is_dir"
    /\ Goes(p, IF is_dir(cc_dir) THEN "rmtree" ELSE "mkdir", cc_dir, cc_todo[p], cc_wrote[p])

\* update_cache: shutil.rmtree(outdir) lists the directory
CcRmtreeList(p) ==
    /\ cc_pc[p] = "rmtree"
    /\ IF ~cc_dir.exists THEN Ends(p, raises("FileNotFoundError"))
       ELSE Goes(p, "unlink", cc_dir, cc_dir.members, cc_wrote[p])

\* update_cache: shutil.rmtree(outdir) removes an entry it listed, and the
\* directory after the last one
CcRmtreeRemove(p) ==
    /\ cc_pc[p] = "unlink"
    /\ IF ~cc_dir.exists THEN Ends(p, raises("FileNotFoundError"))
       ELSE IF cc_todo[p] = {}
       THEN IF cc_dir.members # {} THEN Ends(p, raises("OSError"))
            ELSE Goes(p, "mkdir", NoDir, {}, TRUE)
       ELSE \E m \in cc_todo[p] :
                IF m \notin cc_dir.members THEN Ends(p, raises("FileNotFoundError"))
                ELSE Goes(p, "unlink", DirOf(cc_dir.members \ {m}, cc_clock),
                          cc_todo[p] \ {m}, TRUE)

\* update_cache: os.mkdir(outdir)
CcMkdir(p) ==
    /\ cc_pc[p] = "mkdir"
    /\ IF cc_dir.exists THEN Ends(p, raises("FileExistsError"))
       ELSE Goes(p, "extractall", DirOf({}, cc_clock), Range(SharedMembers), TRUE)

\* extractall: tar.extractall(path=outdir) writes the next member, making
\* the directory when it is missing
CcExtract(p) ==
    /\ cc_pc[p] = "extractall"
    /\ Goes(p, IF cc_todo[p] = {next_member(cc_todo[p])} THEN "return" ELSE "extractall",
            DirOf(cc_dir.members \cup {next_member(cc_todo[p])}, cc_clock),
            cc_todo[p] \ {next_member(cc_todo[p])}, TRUE)

\* get_or_update_cache: return cached_file if cached_file.exists() else None
CcReturn(p) ==
    /\ cc_pc[p] = "return"
    /\ Ends(p, returned(IF cc_dir.exists THEN Str(<<"dir">>) ELSE None))

\* a second passes
CcTick ==
    /\ cc_clock < MaxClock
    /\ cc_clock' = cc_clock + 1
    /\ UNCHANGED <<cc_pc, cc_dir, cc_todo, cc_result, cc_seen, cc_wrote>>
    /\ UNCHANGED not_cc_vars

\* both resolutions have been called; the directory is missing, or holds all
\* members from an earlier resolution
ConcurrentInit ==
    /\ NoSplit /\ Idle /\ NoPipeline /\ NoDeepGet /\ NoConfig /\ NoImport
    /\ cc_pc = [p \in Resolutions |-> "exists"]
    /\ cc_clock \in SharedSourceMtime..MaxClock
    /\ cc_dir \in {NoDir} \cup {DirOf(Range(SharedMembers), t) : t \in 0..cc_clock}
    /\ cc_todo = [p \in Resolutions |-> {}]
    /\ cc_result = [p \in Resolutions |-> None]
    /\ cc_seen = [p \in Resolutions |-> {}]
    /\ cc_wrote = [p \in Resolutions |-> FALSE]

ConcurrentNext ==
    \/ \E p \in Resolutions :
            \/ CcExists(p) \/ CcEligible(p) \/ CcIsDir(p) \/ CcRmtreeList(p)
            \/ CcRmtreeRemove(p) \/ CcMkdir(p) \/ CcExtract(p) \/ CcReturn(p)
    \/ CcTick

SpecConcurrent == ConcurrentInit /\ [][ConcurrentNext]_vars

-----------------------------------------------------------------------------
(* Inputs of the split_container harness *)

ExtensionLists == {TarExtension, <<ext_tar_gz, ext_tar>>, <<ext_gz>>, <<ext_tar>>, <<>>}

Tokens == {<<"a">>, <<"/">>, <<"\\">>, <<".", "t", "a", "r">>, <<".", "g", "z">>}

RECURSIVE PathsUpTo(_)
PathsUpTo(n) ==
    IF n = 0 THEN {<<>>}
    ELSE LET shorter == PathsUpTo(n - 1)
         IN  shorter \cup {p \o t : p \in shorter, t \in Tokens}

\* "a/b.tar.gz/c/d.txt", "a/b.tar.gz", "a/b.txt"
ExamplePaths ==
    { <<"a", "/", "b", ".", "t", "a", "r", ".", "g", "z", "/", "c", "/", "d", ".", "t", "x", "t">>,
      <<"a", "/", "b", ".", "t", "a", "r", ".", "g", "z">>,
      <<"a", "/", "b", ".", "t", "x", "t">> }

SplitInputs == PathsUpTo(MaxTokens) \cup ExamplePaths

SplitInit ==
    /\ Idle
    /\ NoAux
    /\ sc_pc = "input"
    /\ sc_fname \in SplitInputs
    /\ sc_extensions \in ExtensionLists
    /\ sc_result = <<None, None>>

SplitCall ==
    /\ sc_pc = "input"
    /\ sc_result' = split_container(sc_fname, sc_extensions)
    /\ sc_pc' = "done"
    /\ UNCHANGED <<sc_fname, sc_extensions>>
    /\ UNCHANGED <<fc_vars, aux_vars>>

SplitNext == SplitCall

SpecSplit == SplitInit /\ [][SplitNext]_vars

-----------------------------------------------------------------------------
(* Claims about split_container, checked under SpecSplit *)

\* positions (1-based) where a segment of the normalised path n ends in
\* ".<ext>" for a listed extension
ContainerEnds(n, extensions) ==
    {k \in 1..Len(n) :
        /\ k = Len(n) \/ n[k + 1] = "/"
        /\ \E e \in Range(extensions) : endswith(SubSeq(n, 1, k), <<".">> \o e)}

\* the split at the leftmost such segment
LeftmostSplit(n, extensions) ==
    LET ends == ContainerEnds(n, extensions)
        k == CHOOSE x \in ends : \A y \in ends : x <= y
    IN  <<Str(SubSeq(n, 1, k)),
          IF k = Len(n) THEN None ELSE Str(SubSeq(n, k + 2, Len(n)))>>

\* C7: split_container splits at the first (leftmost) path segment that ends
\* in ".<ext>" for any listed extension, whatever the order of the extensions
\* and also when a later segment ends in a listed extension too.
C7_SplitsAtLeftmostSegment ==
    sc_pc = "done" =>
        LET n == replace(sc_fname, "\\", "/")
        IN  ContainerEnds(n, sc_extensions) # {}
                => sc_result = LeftmostSplit(n, sc_extensions)

ExampleCompound ==
    <<"a", "/", "b", ".", "t", "a", "r", ".", "g", "z", "/", "c", "/", "d", ".", "t", "x", "t">>

ExampleContainer == <<"a", "/", "b", ".", "t", "a", "r", ".", "g", "z">>

ExampleInner == <<"c", "/", "d", ".", "t", "x", "t">>

\* C8: split_container returns (None, None) exactly when no segment of the
\* path ends in a listed extension; a path that ends with a listed extension
\* and has no inner path comes back whole with a None inner path; and for
\* [tar, tar.gz], "a/b.tar.gz/c/d.txt" gives ("a/b.tar.gz", "c/d.txt").
C8_SplitNoneAndExamples ==
    sc_pc = "done" =>
        LET n == replace(sc_fname, "\\", "/")
            ends == ContainerEnds(n, sc_extensions)
        IN  /\ (sc_result = <<None, None>>) <=> (ends = {})
            /\ ends = {Len(n)} => sc_result = <<Str(n), None>>
            /\ (sc_fname = ExampleCompound /\ sc_extensions = TarExtension)
                    => sc_result = <<Str(ExampleContainer), Str(ExampleInner)>>

C8_Witness ==
    /\ sc_pc = "done"
    /\ sc_fname = ExampleCompound
    /\ sc_extensions = TarExtension
    /\ sc_result = <<Str(ExampleContainer), Str(ExampleInner)>>

\* the characters of a returned value (none for None)
CharsOf(v) == IF v = None THEN {} ELSE Range(v.s)

\* C9: a path written with back-slashes and the same path written with
\* forward-slashes split identically, and the returned container and inner
\* path hold forward-slashes only.
C9_SeparatorsNormalised ==
    sc_pc = "done" =>
        /\ split_container(replace(sc_fname, "/", "\\"), sc_extensions)
                = split_container(replace(sc_fname, "\\", "/"), sc_extensions)
        /\ sc_result = split_container(replace(sc_fname, "\\", "/"), sc_extensions)
        /\ "\\" \notin CharsOf(sc_result[1]) \cup CharsOf(sc_result[2])

C9_Witness ==
    /\ sc_pc = "done"
    /\ sc_fname = <<"a", ".", "t", "a", "r", "\\", "a">>
    /\ sc_result = <<Str(<<"a", ".", "t", "a", "r">>), Str(<<"a">>)>>

-----------------------------------------------------------------------------
(* Claims about FileCache.resolve and the handlers, checked under Spec *)

Returned == pc = "idle" /\ outcome # None /\ outcome.kind = "returned"

\* C1: after a handler at index i returned a non-None reference, the next
\* handler called is the one at index 0, with that reference and the option
\* bag the handler returned; after it returned None, the next handler called
\* is the one at index i + 1, with the same reference.
C1_DispatchOrder ==
    \A k \in 1..(Len(log) - 1) :
        /\ log[k].value # None =>
                /\ log[k + 1].idx = 0
                /\ log[k + 1].file = log[k].value
                /\ log[k + 1].kvargs = log[k].returned
        /\ log[k].value = None =>
                /\ log[k + 1].idx = log[k].idx + 1
                /\ log[k + 1].file = log[k].file

\* the handler at index 0 declined, the one at index 1 produced a reference
\* and took an option out of the bag, and index 0 was called next
C1_Witness ==
    /\ Len(log) >= 3
    /\ log[1].idx = 0 /\ log[1].value = None
    /\ log[2].idx = 1 /\ log[2].value # None /\ log[2].returned # log[2].kvargs
    /\ log[3].idx = 0 /\ log[3].file = log[2].value

\* the last Len(repo) calls went through the indices 0 .. Len(repo) - 1 on
\* the reference ref and all returned None
FullPass(ref) ==
    /\ Len(log) >= Len(repo)
    /\ \A k \in 1..Len(repo) :
        LET e == log[Len(log) - Len(repo) + k]
        IN  e.idx = k - 1 /\ e.file = ref /\ e.value = None /\ ~e.raised

\* C2: resolve returns a reference only after every registered handler, in
\* one uninterrupted pass from index 0 to the last index, was called on it and
\* returned None.
C2_ReturnsAfterFullPass == Returned => FullPass(file)

C2_Witness ==
    /\ Returned
    /\ Len(repo) = 2
    /\ Len(log) >= 4
    /\ \E k \in 1..Len(log) : log[k].value # None

\* the last reference a handler produced, the caller's when none did
LastProduced ==
    LET hits == {k \in 1..Len(log) : log[k].value # None}
    IN  IF hits = {} THEN call.fname
        ELSE log[CHOOSE k \in hits : \A j \in hits : j <= k].value

\* C3: resolve returns the last reference a handler produced, or the caller's
\* reference when none did (also with an empty registry); a str result
\* becomes a Path exactly when it names an existing filesystem entry and is
\* returned unchanged otherwise.
C3_ReturnValue ==
    Returned =>
        LET last == LastProduced
            is_entry == last.type = "str" /\ path_str(last.s) \in DOMAIN fs
        IN  /\ is_entry => outcome.value.type = "Path" /\ outcome.value.s = path_str(last.s)
            /\ ~is_entry => outcome.value = last

\* the plain file, given as a str, comes back as a Path with no handler registered
C3_Witness ==
    /\ Returned
    /\ repo = <<>>
    /\ call.fname = Str(PlainPath)
    /\ outcome.value = Path(PlainPath)

\* the log entries in which get_or_update_cache ran with a cache directory
Fetches == {k \in 1..Len(log) : log[k].fetch # None}

\* C4: get_or_update_cache calls update_cache exactly when the artifact does
\* not exist or its modification time, in whole seconds, is not strictly
\* greater than the source's; equal whole seconds count as stale.
C4_ProducesWhenMissingOrStale ==
    \A k \in Fetches :
        LET e == log[k].fetch
        IN  e.produced <=>
                \/ ~e.existed
                \/ ~(e.cached_mtime \div TicksPerSecond > e.source_mtime \div TicksPerSecond)

\* an existing artifact written later than its source, but within the same
\* whole second, is produced again
C4_Witness ==
    \E k \in Fetches :
        LET e == log[k].fetch
        IN  /\ e.existed
            /\ e.cached_mtime > e.source_mtime
            /\ e.cached_mtime \div TicksPerSecond = e.source_mtime \div TicksPerSecond
            /\ e.produced

\* the log entries that fetch an artifact produced before and still there
Refetches == {k \in Fetches : log[k].fetch.existed /\ log[k].made_from # -1}

\* the source of the fetch in log[k] is as it was when the artifact was produced
Untouched(k) == log[k].fetch.source_mtime = log[k].made_from

\* C5: once an artifact has been produced, the next resolve after the source
\* was touched to a newer modification time than the artifact produces it
\* again, and no resolve produces it again while the source stays untouched.
C5_RegeneratesOnlyWhenTouched ==
    \A k \in Refetches :
        LET e == log[k].fetch
        IN  /\ e.source_mtime > e.cached_mtime => e.produced
            /\ Untouched(k) => ~e.produced

\* C5 as amended: ... and no resolve produces it again while the source stays
\* untouched and the artifact's modification time lies in a later whole
\* second than the source's.
C5_RegeneratesWhenTouchedOrSameSecond ==
    \A k \in Refetches :
        LET e == log[k].fetch
        IN  /\ e.source_mtime > e.cached_mtime => e.produced
            /\ (Untouched(k)
                   /\ e.cached_mtime \div TicksPerSecond > e.source_mtime \div TicksPerSecond)
                => ~e.produced

\* a resolve after the source was touched produced the artifact again
C5_Witness ==
    \E k \in Refetches :
        /\ ~Untouched(k)
        /\ log[k].fetch.source_mtime > log[k].fetch.cached_mtime
        /\ log[k].fetch.produced

\* C6: two consecutive resolves of the same reference and option bag, with
\* unchanged sources, return equal paths; and while the plain file that no
\* handler accepts is resolved, nothing in the filesystem (so nothing in the
\* cache tree) is created or changed.
C6_Idempotent ==
    [][ /\ (Returned /\ prev # None /\ prev.kind = "returned")'
            => (outcome.value = prev.value)'
        /\ (pc = "dispatching" /\ call.fname = Str(PlainPath) /\ call.kvargs = EmptyDict)
            => /\ fs' = fs
               /\ log' # log => log'[Len(log')].value = None ]_vars

\* a second resolve of the member reference returned the member's path again
C6_Witness ==
    /\ Returned
    /\ prev # None /\ prev.kind = "returned"
    /\ call.fname = Str(ArchivePath \o <<"/", "c">>)
    /\ \E k \in Fetches : ~log[k].fetch.produced
    /\ outcome.value = path_join(cache_subdir(CacheRoot, ext_tar), Str(<<"f", ".">> \o ext_tar_gz \o <<"/", "c">>))

\* gzip decompression and tar extraction done by hand
gunzip(content) == content.inner

untar(content) == content.members

\* both handlers are registered, each with its cache directory
BothRegistered ==
    /\ Len(repo) = 2
    /\ \A k \in 1..2 : repo[k].cache_dir # None

\* C10: with a gz and a tar handler registered, in either order, resolving
\* f.tar.gz ends at the members, and resolving f.tar.gz/<member> at the
\* member content, that decompressing f.tar.gz and then extracting the tar
\* gives.
C10_ChainComposition ==
    (Returned /\ BothRegistered /\ call.kvargs = EmptyDict) =>
        LET members == untar(gunzip(fs[ArchivePath].content))
        IN  /\ call.fname.s = ArchivePath
                => /\ isdir(fs, outcome.value.s)
                   /\ dir_members(fs, outcome.value.s) = members
            /\ call.fname.s = ArchivePath \o <<"/", "c">>
                => /\ isfile(fs, outcome.value.s)
                   /\ fs[outcome.value.s].content = members[<<"c">>]

\* the gz handler is registered first: it decompressed, the tar handler
\* unpacked the decompressed file, and the member came back
C10_Witness ==
    /\ Returned
    /\ BothRegistered
    /\ repo[1].cls = "GzFileMatcher"
    /\ call.fname = Str(ArchivePath \o <<"/", "c">>)
    /\ Len(log) >= 3
    /\ log[1].value # None
    /\ fs[outcome.value.s].content = Plain("member c")

-----------------------------------------------------------------------------
(* Claims about the archive handlers' options, cache paths and failures *)

\* the class of the handler called in log[k]
HandlerClass(k) == repo[log[k].idx + 1].cls

\* C11: after the zip handler has accepted a request whose option bag
\* carries the archive password, the option bag it returns does not contain
\* the password, and no handler called later in the same resolve receives it.
C11_PasswordNotForwarded ==
    \A k \in 1..Len(log) :
        (/\ HandlerClass(k) = "ZipFileMatcher"
         /\ log[k].value # None
         /\ opt_pwd \in DOMAIN log[k].kvargs)
            => /\ opt_pwd \notin DOMAIN log[k].returned
               /\ \A j \in (k + 1)..Len(log) : opt_pwd \notin DOMAIN log[j].kvargs

\* a tar handler with a cache directory is registered
TarCaches == \E k \in DOMAIN repo : repo[k].cls = "TarFileMatcher" /\ repo[k].cache_dir # None

\* the directory the tar handler unpacks d/f.tar.gz into
ExtractionDir == <<"k", "/", "t", "a", "r", "/", "f", ".", "t", "a", "r", ".", "g", "z">>

\* the resolve that returned named the archive in the tar option
NamedInOption ==
    /\ Returned
    /\ ext_tar \in DOMAIN call.kvargs
    /\ call.kvargs[ext_tar] = Path(ArchivePath)

\* C12: resolving an inner path p with the container-file option set to the
\* archive A returns the same path as resolving the compound reference "A/p",
\* and that path lies inside A's extraction directory.
C12_OptionEqualsCompound ==
    TarCaches =>
        /\ NamedInOption =>
                /\ is_under(outcome.value.s, ExtractionDir)
                /\ outcome.value.s # ExtractionDir
        /\ (Returned /\ prev # None /\ prev.kind = "twin") => outcome.value = prev.value

\* the log entries in which a tar handler with a cache directory accepted a
\* reference that names the archive itself (no container option)
TarAccepts ==
    {k \in 1..Len(log) :
        /\ HandlerClass(k) = "TarFileMatcher"
        /\ repo[log[k].idx + 1].cache_dir # None
        /\ log[k].value # None
        /\ ext_tar \notin DOMAIN log[k].kvargs}

\* <cache-root>/<handler-name>/<b>, and /<inner> when there is an inner path
ExpectedArtifact(name, b, inner) ==
    <<"k", "/">> \o name \o <<"/">> \o b \o (IF inner = <<>> THEN <<>> ELSE <<"/">> \o inner)

\* C13: for a handler whose cache directory is <cache-root>/<handler-name>,
\* resolving an archive whose file name is b returns <cache-root>/<name>/b
\* when the reference has no inner path and <cache-root>/<name>/b/<inner>
\* when it has one; the artifact name is the archive's base name unchanged.
C13_ArtifactPath ==
    \A k \in TarAccepts :
        LET ref == path_str(log[k].file.s)
            archive == log[k].fetch.source
            b == path_name(archive)
            inner == IF ref = archive THEN <<>> ELSE slice_from(ref, Len(archive) + 1)
        IN  /\ log[k].fetch.artifact = ExpectedArtifact(ext_tar, b, <<>>)
            /\ log[k].value = [type |-> "Path", s |-> ExpectedArtifact(ext_tar, b, inner)]

\* d/f.tar.gz/c came back as k/tar/f.tar.gz/c
C13_Witness ==
    /\ Returned
    /\ Len(repo) = 1
    /\ call = plain_call(Str(ArchivePath \o <<"/", "c">>))
    /\ 1 \in TarAccepts
    /\ outcome.value.s = <<"k", "/", "t", "a", "r", "/", "f", ".", "t", "a", "r", ".", "g", "z", "/", "c">>

\* the resolve names the archive that does not exist, in its reference or in
\* the container-file option
NamesMissing ==
    /\ call # None
    /\ \/ call.fname = Str(MissingPath)
       \/ (ext_tar \in DOMAIN call.kvargs /\ call.kvargs[ext_tar] = Path(MissingPath))

\* C17: resolving a reference that names an archive which does not exist, in
\* the reference or in the container-file option, raises at no handler: every
\* handler declines, and the engine returns the reference unresolved once the
\* chain is exhausted.
C17_MissingSourceDeclined ==
    NamesMissing =>
        /\ \A k \in 1..Len(log) : log[k].value = None /\ ~log[k].raised
        /\ (pc = "idle" /\ outcome # None)
                => outcome = [kind |-> "returned", value |-> call.fname]

\* both handlers were asked for a member of the missing archive and declined
C17_Witness ==
    /\ Returned
    /\ Len(repo) = 2
    /\ Len(log) = 2
    /\ ext_tar \in DOMAIN call.kvargs
    /\ call.kvargs[ext_tar] = Path(MissingPath)
    /\ outcome.value = Str(<<"c">>)

\* a handler of class cls with a cache directory is registered
Caches(cls) == \E k \in DOMAIN repo : repo[k].cls = cls /\ repo[k].cache_dir # None

\* the resolve names the corrupt archive, with the tar handler registered
NamesCorrupt ==
    /\ call # None
    /\ call.fname = Str(CorruptPath)
    /\ Caches("TarFileMatcher")

\* the resolve names the encrypted zip archive and carries a wrong password,
\* with the zip handler registered
NamesWrongPassword ==
    /\ call # None
    /\ call.fname.s \in {ZipPath, ZipPath \o <<"/", "c">>}
    /\ dict_get(call.kvargs, opt_pwd) = WrongPassword
    /\ Caches("ZipFileMatcher")

\* C18: resolving a corrupt archive, or a zip archive with a wrong password,
\* fails with an error on every call: no call, also none made after an
\* earlier failed extraction of the same archive, returns a path for it.
C18_BrokenArchiveAlwaysFails ==
    (pc = "idle" /\ outcome # None /\ (NamesCorrupt \/ NamesWrongPassword))
        => outcome.kind = "raised"

\* the registry l without its element at the 0-based index p
Without(l, p) == SubSeq(l, 1, p) \o SubSeq(l, p + 2, Len(l))

\* C19: register(handler) with no position appends the handler at the end of
\* the registry, and register(handler, insert=p) places it at index p for
\* every p with 0 <= p <= length of the registry; in both cases the handlers
\* already registered keep their relative order.
C19_RegisterAtPosition ==
    [][ repo' # repo =>
            /\ Len(repo') = Len(repo) + 1
            /\ outcome'.insert = -1 => Without(repo', Len(repo)) = repo
            /\ outcome'.insert \in 0..Len(repo) => Without(repo', outcome'.insert) = repo ]_vars

-----------------------------------------------------------------------------
(* Claims about the cache directories, checked under SpecLifecycle *)

\* the paths whose entry differs between the filesystems f and g
Changed(f, g) ==
    {p \in DOMAIN f \cup DOMAIN g : p \notin DOMAIN f \/ p \notin DOMAIN g \/ f[p] # g[p]}

\* <cache-root>/<name>
SubdirOf(name) == <<"k", "/">> \o name

ClearedNamed == outcome' # None /\ outcome'.kind = "cleared" /\ outcome'.subdir # None

\* C15: clear_cache(name) removes only the subtree <cache-root>/<name>: the
\* artifacts under every other handler's subdirectory, and the root
\* directory itself, stay as they are.
C15_ClearsOnlyNamedSubtree ==
    [][ ClearedNamed =>
            /\ \A p \in Changed(fs, fs') : is_under(p, SubdirOf(outcome'.subdir.s))
            /\ (cache_dir # None /\ ~outcome'.raised)
                    => \A p \in DOMAIN fs' : ~is_under(p, SubdirOf(outcome'.subdir.s)) ]_vars

\* the tar handler's subtree was cleared and the other handler's artifact is still there
C15_Witness ==
    /\ outcome # None
    /\ outcome.kind = "cleared"
    /\ outcome.subdir = Str(ext_tar)
    /\ ~outcome.raised
    /\ ~exists(fs, SubdirOf(ext_tar))
    /\ isfile(fs, <<"k", "/", "g", "z", "/", "f", ".", "t", "a", "r">>)

\* the step is, or follows, a clear_cache call with no name
ClearedAll == outcome' # None /\ outcome'.kind = "cleared" /\ outcome'.subdir = None

\* C16: clear_cache() with no name removes every artifact of every handler
\* and leaves the cache root existing and empty; with no cache root it does
\* nothing.
C16_ClearsAllKeepsRoot ==
    [][ ClearedAll =>
            IF cache_dir = None
            THEN fs' = fs /\ ~outcome'.raised
            ELSE /\ ~outcome'.raised
                 /\ isdir(fs', CacheRoot.s)
                 /\ \A p \in DOMAIN fs' : is_under(p, CacheRoot.s) => p = CacheRoot.s ]_vars

\* every registered handler has the cache directory cache_subdir gives for
\* its name, or none
SubdirsFromRoot ==
    \A k \in DOMAIN repo :
        IF cache_dir = None THEN repo[k].cache_dir = None
        ELSE repo[k].cache_dir \in {None, [type |-> "Path", s |-> SubdirOf(repo[k].name)]}

\* a call of a handler without a cache directory changes no file and yields None
NilHandlerStep ==
    (pc = "dispatching" /\ log' # log /\ repo[i + 1].cache_dir = None)
        => /\ fs' = fs
           /\ log'[Len(log')].value = None
           /\ ~log'[Len(log')].raised

\* C20: cache_subdir(name) is None when the engine's cache root is None and
\* <root>/<name> otherwise; a handler constructed with no cache directory
\* never creates, modifies or deletes a file, and its fetch step yields None.
C20_NilCacheDir == []SubdirsFromRoot /\ [][NilHandlerStep]_vars

\* an engine without a cache root resolved the archive: both handlers were
\* called, nothing was written and the reference came back
C20_Witness ==
    /\ cache_dir = None
    /\ Returned
    /\ Len(repo) = 2
    /\ Len(log) = 2
    /\ call = plain_call(Str(ArchivePath))
    /\ outcome.value = Path(ArchivePath)
    /\ DOMAIN fs \subseteq DOMAIN InitialFiles("lifecycle")

\* C21: when a resolve needs a handler's cache directory and it does not
\* exist, the directory is created before the artifact is written, also the
\* cache root when the root itself does not exist yet; a resolve never fails
\* because a cache directory is missing.
C21_CacheDirsCreated ==
    /\ (pc = "idle" /\ call # None /\ outcome # None) => outcome.kind = "returned"
    /\ \A k \in Fetches :
            log[k].fetch.produced => isdir(fs, SubdirOf(log[k].fetch.handler))

\* The part of C21 the code keeps: with the cache root in place, a missing
\* handler directory is created and no resolve of the valid archive fails.
C21_HandlerDirCreated ==
    isdir(fs, CacheRoot.s) => C21_CacheDirsCreated

C21_HandlerDirCreated_Witness ==
    /\ pc = "idle" /\ call # None /\ outcome # None /\ outcome.kind = "returned"
    /\ \E k \in Fetches : log[k].fetch.produced

\* C30: when producing an artifact fails part-way, the final cache path holds
\* no new or partial artifact: after the failed call every path below the
\* handler's cache directory is absent or is what it was before the call.
C30_FailedProduceLeavesNoArtifact ==
    [][ (pc = "dispatching" /\ log' # log /\ log'[Len(log')].raised) =>
            \A p \in Changed(fs, fs') :
                p \notin DOMAIN fs' \/ p = SubdirOf(repo[i + 1].name) ]_vars

-----------------------------------------------------------------------------
(* Claims about the git handler, checked under SpecGit *)

\* the working directory of the repository GitRef
GitWorkDir == path_join(cache_subdir(CacheRoot, opt_git), Str(<<"p">>))

\* the handler about to be called is the git handler with a cache directory,
\* asked for the repository GitRef
GitUpdates ==
    /\ pc = "dispatching"
    /\ loop_continues(i, repo)
    /\ truthy(repo[i + 1].cache_dir)
    /\ dict_get(kvargs, opt_git) = Str(GitRef)

\* the commands that need the clone to have been run
InWorkDir(cmd) == cmd.op \in {"checkout", "pull", "reset", "rev-list"}

\* one clone was run since the cache was cleared, and in this resolve no
\* command in the working directory was run before it
OneCloneFirst ==
    /\ git_clones <= 1
    /\ isdir(fs, GitWorkDir.s) => git_clones = 1
    /\ \A k \in DOMAIN git_cmds :
            InWorkDir(git_cmds[k]) =>
                /\ git_clones = 1
                /\ \A j \in DOMAIN git_cmds : git_cmds[j].op = "clone" => j < k

\* the git handler's call runs a clone exactly when the working directory
\* does not exist
ClonesWhenMissing ==
    (GitUpdates /\ log' # log) =>
        /\ git_clones' = git_clones + (IF isdir(fs, GitWorkDir.s) THEN 0 ELSE 1)
        /\ isdir(fs', GitWorkDir.s)

GitResolved ==
    /\ pc = "idle" /\ call # None /\ outcome # None
    /\ dict_get(call.kvargs, opt_git) = Str(GitRef)
    /\ \E k \in DOMAIN repo : truthy(repo[k].cache_dir)

\* C23: a resolve that carries the repository option and the pull option
\* runs a pull in the working directory, whatever the branch, revision and
\* effective date options are.
C23_PullAlwaysRuns ==
    (GitResolved /\ is_true(dict_get(call.kvargs, opt_pull)))
        => \E k \in DOMAIN git_cmds :
                git_cmds[k].op = "pull" /\ git_cmds[k].cwd = GitWorkDir.s

\* the part of C23 the code keeps: the pull runs unless the effective date is
\* given without a revision
C23_PullUnlessEffectiveDate ==
    (/\ GitResolved
     /\ is_true(dict_get(call.kvargs, opt_pull))
     /\ (truthy(dict_get(call.kvargs, opt_revision))
            \/ ~truthy(dict_get(call.kvargs, opt_effective_date))))
        => \E k \in DOMAIN git_cmds :
                git_cmds[k].op = "pull" /\ git_cmds[k].cwd = GitWorkDir.s

\* the last resolve named the repository reference without a project name
\* to a registered git handler, and has ended
NoProjectResolved ==
    /\ pc = "idle" /\ call # None /\ outcome # None
    /\ dict_get(call.kvargs, opt_git) = Str(NoProjectRef)
    /\ repo # <<>>

\* C24: when the repository option is supplied and no project name can be
\* extracted from it, the git handler's resolve raises instead of returning
\* None, whether or not the handler has a cache directory.
C24_NoProjectRaises == NoProjectResolved => outcome.kind = "raised"

\* the part of C24 the code keeps: a handler with a cache directory raises
C24_NoProjectRaisesWithCacheDir ==
    (NoProjectResolved /\ truthy(repo[1].cache_dir)) => outcome.kind = "raised"

-----------------------------------------------------------------------------
(* Claims about the pipeline, checked under SpecPipeline *)

\* the main calls made for the n-th event
mains(calls, n) == SelectSeq(calls, LAMBDA c : c.op = "main" /\ c.event = n)

RECURSIVE until_true(_)
\* the steps up to and including the first one whose main returns True
until_true(steps) ==
    IF steps = <<>> THEN <<>>
    ELSE IF Head(steps).returns = Bool(TRUE) THEN <<Head(steps)>>
    ELSE <<Head(steps)>> \o until_true(Tail(steps))

\* the last call processed an event with a pipeline that was added
EventProcessed ==
    /\ pl_last # None
    /\ pl_last.op = "process_event"
    /\ has_pipeline(pl_pipelines, pl_last.pipeline)

\* the steps named by calls are the steps, in their order
SameSteps(calls, steps) ==
    /\ Len(calls) = Len(steps)
    /\ \A k \in DOMAIN calls : calls[k].step = steps[k].name

\* C25: processing an event invokes the steps of the named pipeline in the
\* order they were added: every step once, up to and including the first
\* step whose main returns True, and no step after that one.
C25_StepsInOrder ==
    EventProcessed =>
        SameSteps(mains(pl_calls, pl_event_count),
                  until_true(steps_of(pl_pipelines, pl_last.pipeline)))

\* the part of C25 the code keeps: an event that already holds a dict of
\* meta data and a list of trace entries is processed as C25 says
C25_PreparedEventInOrder ==
    (EventProcessed /\ pl_last.event = Event("dict", "list")) => C25_StepsInOrder

\* a prepared event went through a step that returned a true value that is
\* not True and stopped at a step that returned True
C25_PreparedEvent_Witness ==
    /\ EventProcessed /\ pl_last.event = Event("dict", "list") /\ ~pl_last.raised
    /\ Len(mains(pl_calls, pl_event_count)) = 2
    /\ steps_of(pl_pipelines, pl_last.pipeline)[1].returns = int(1)
    /\ steps_of(pl_pipelines, pl_last.pipeline)[2].returns = Bool(TRUE)

\* the number of times op was invoked on the step named step
Invocations(op, step) ==
    Cardinality({k \in DOMAIN pl_calls : pl_calls[k].op = op /\ pl_calls[k].step = step})

\* the names of the steps of all pipelines
StepNames == {foreach_step(pl_pipelines)[k].name : k \in DOMAIN foreach_step(pl_pipelines)}

\* inside the with block every step was initialized, before any event of the
\* block was processed
InitializedBeforeBody ==
    pl_pc \in {"body", "exited"} =>
        \A step \in StepNames :
            \E k \in DOMAIN pl_calls :
                /\ pl_calls[k].op = "initialize" /\ pl_calls[k].step = step
                /\ \E b \in DOMAIN pl_calls : pl_calls[b].op = "body" /\ k < b

\* C26: with a Pipeline used as a context manager, every step's initialize
\* is invoked before any event of the block is processed, finalize is never
\* invoked before the block is left, and once the block was left without an
\* exception every step's finalize was invoked exactly once.
C26_FinalizeOnceAfterBody ==
    /\ InitializedBeforeBody
    /\ pl_pc # "exited" => \A k \in DOMAIN pl_calls : pl_calls[k].op # "finalize"
    /\ (pl_pc = "exited" /\ ~pl_last.raised) =>
            \A step \in StepNames : Invocations("finalize", step) = 1

-----------------------------------------------------------------------------
(* Claims about dict_utils, checked under SpecDeepGet *)

\* the path of the call is empty: an empty string, an empty list or a string
\* of separators only
EmptyPath ==
    \/ dg_args.keys = list(<<>>)
    \/ /\ dg_args.keys.type = "str"
       /\ \A k \in DOMAIN dg_args.keys.s : dg_args.keys.s[k] = dg_args.separator

\* C29: deep_get called with an empty path and no default returns the
\* mapping itself.
C29_EmptyPathReturnsMapping ==
    (dg_pc = "done" /\ EmptyPath /\ dg_args.default = __MISSING__)
        => dg_result = returned(dg_args.dict)

-----------------------------------------------------------------------------
(* Claims about Config, checked under SpecConfig *)

RECURSIVE reversed(_)
reversed(l) == IF l = <<>> THEN <<>> ELSE Append(reversed(Tail(l)), Head(l))

\* the layers by priority: the values set manually, the user configs with
\* the last-listed one first, the default config
Priority ==
    <<cfg_config[1]>>
    \o [k \in DOMAIN cfg_user_config |->
            with_file(cfg_files[reversed(cfg_user_config)[k]], reversed(cfg_user_config)[k])]
    \o <<with_file(cfg_files[default_config], default_config)>>

\* the layer holds a value at the path
contains(layer, path) == path # <<>> /\ walk(layer, path).raised = ""

\* the layers of Priority that contain the path
Holders(path) == {k \in DOMAIN Priority : contains(Priority[k], path)}

\* the value at the path in the first layer of Priority that contains it
HighestValue(path) ==
    walk(Priority[CHOOSE k \in Holders(path) : \A j \in Holders(path) : k <= j], path).value

\* the last call was get_value
ValueAsked == cfg_last # None /\ cfg_last.op = "get_value"

\* C27: get_value(path) returns the value of the highest-priority layer
\* that contains the path, the priority being: the values set with set(),
\* the user configs with the last-listed one first, the default config.
C27_HighestLayerWins ==
    (ValueAsked /\ Holders(path_split(cfg_last.path, ".")) # {})
        => cfg_last.result = returned(HighestValue(path_split(cfg_last.path, ".")))

\* the part of C27 the code keeps: when get_value returns, it returns the
\* value of the highest-priority layer that contains the path
C27_ReturnedIsHighest ==
    (ValueAsked /\ cfg_last.result.raised = "")
        => /\ Holders(path_split(cfg_last.path, ".")) # {}
           /\ cfg_last.result.value = HighestValue(path_split(cfg_last.path, "."))

-----------------------------------------------------------------------------
(* Claims about import_module, checked under SpecImport *)

\* a name of the registry keeps its file
NeverRemapped ==
    \A n \in DOMAIN modules :
        n \in DOMAIN modules' /\ path_resolve(modules'[n]) = path_resolve(modules[n])

\* the call just made named the file that is registered for its name
SameFile ==
    /\ im_last'.known
    /\ is_module_file(im_last'.file)
    /\ path_resolve(modules[module_name(im_last'.file)]) = path_resolve(im_last'.file)

\* the call just made named a file other than the one registered for its name
OtherFile ==
    /\ im_last'.known
    /\ is_module_file(im_last'.file)
    /\ path_resolve(modules[module_name(im_last'.file)]) # path_resolve(im_last'.file)

\* the file of the call just made is one whose import raises nothing
Importable == ModuleFiles[path_resolve(im_last'.file)] = "module"

\* C28: over the import_module_from_file calls the registry maps a module
\* name to one file for good: importing the same file again succeeds, and
\* importing another file with the same base name raises and leaves the
\* registry unchanged.
C28_OneFilePerName ==
    [][ImportModuleFromFile =>
        /\ NeverRemapped
        /\ (SameFile /\ Importable) => im_last'.raised = ""
        /\ OtherFile => (im_last'.raised # "" /\ modules' = modules)]_vars

-----------------------------------------------------------------------------
(* Claims about archives that change and archives of one base name,        *)
(* checked under SpecArchives                                              *)

\* the handler call just made was the archive handler's, and it produced its
\* artifact without an error
Regenerated ==
    /\ log' # <<>>
    /\ log'[Len(log')].fetch # None
    /\ log'[Len(log')].fetch.handler = ext_tar
    /\ log'[Len(log')].fetch.produced
    /\ ~log'[Len(log')].raised

\* the members of the archive at path p, compressed or not
MembersOf(f, p) ==
    IF f[p].content.kind = "gz" THEN untar(gunzip(f[p].content)) ELSE untar(f[p].content)

\* C31: after the archive handler regenerates an artifact, the extraction
\* directory holds exactly the members of the current archive: nothing of an
\* earlier extraction under the same cache key remains.
C31_ExactlyCurrentMembers ==
    [][(HandlerStep /\ Regenerated) =>
        dir_members(fs', log'[Len(log')].fetch.artifact)
            = MembersOf(fs, log'[Len(log')].fetch.source)]_vars

\* an extraction directory that held the members of an earlier archive was
\* regenerated, and holds members of another name now
C31_Witness ==
    /\ log # <<>>
    /\ log[Len(log)].fetch # None
    /\ log[Len(log)].fetch.handler = ext_tar
    /\ log[Len(log)].fetch.produced
    /\ log[Len(log)].fetch.existed
    /\ ~log[Len(log)].raised
    /\ dir_members(fs, log[Len(log)].fetch.artifact) = RewrittenMembers

\* the resolve that ended named one of the two archives and returned a
\* directory
ReturnedExtraction ==
    /\ pc = "idle"
    /\ call # None
    /\ outcome # None
    /\ outcome.kind = "returned"
    /\ call.fname.s \in {ArchivePath, TwinPath}
    /\ outcome.value # None
    /\ isdir(fs, outcome.value.s)

\* C37: the path returned for an archive reference holds the members of that
\* very archive, also when another archive of the same base name, in another
\* directory, was resolved and cached before.
C37_ReturnsOwnMembers ==
    ReturnedExtraction =>
        dir_members(fs, outcome.value.s) = MembersOf(fs, call.fname.s)

-----------------------------------------------------------------------------
(* Claims about the revision the git handler resets to, checked under      *)
(* SpecGit                                                                 *)

\* the resets of the resolve, as positions in its commands
Resets == {k \in DOMAIN git_cmds : git_cmds[k].op = "reset"}

\* the one reset of the resolve is to revision and is its last command
ResetsLastTo(revision) ==
    /\ Resets = {Len(git_cmds)}
    /\ git_cmds[Len(git_cmds)].cwd = GitWorkDir.s
    /\ git_cmds[Len(git_cmds)].args = <<revision.s>>

\* the revision the git program was asked for and reported, None when it was
\* not asked or reported none
Reported ==
    IF \E k \in DOMAIN git_cmds :
            git_cmds[k] = rev_list_cmd(GitWorkDir, dict_get(call.kvargs, opt_effective_date),
                                       dict_get(call.kvargs, opt_branch))
    THEN determine_revision(dict_get(call.kvargs, opt_effective_date),
                            dict_get(call.kvargs, opt_branch))
    ELSE None

\* C32: in one git resolution the reset is to the revision option when it is
\* given, the effective date being ignored then; otherwise to the revision
\* the git program reports for the effective date on the branch; with
\* neither no reset is run; and the reset is the last git command, after
\* any checkout and pull.
C32_ResetRevision ==
    (GitResolved /\ outcome.kind = "returned") =>
        IF truthy(dict_get(call.kvargs, opt_revision))
        THEN /\ ResetsLastTo(dict_get(call.kvargs, opt_revision))
             /\ \A k \in DOMAIN git_cmds : git_cmds[k].op # "rev-list"
        ELSE IF truthy(dict_get(call.kvargs, opt_effective_date))
        THEN /\ \E k \in DOMAIN git_cmds : git_cmds[k].op = "rev-list"
             /\ IF truthy(Reported) THEN ResetsLastTo(Reported) ELSE Resets = {}
        ELSE Resets = {}

\* a resolve with a branch, a pull, a revision and an effective date ran the
\* checkout and the pull and then the reset to the revision
C32_Witness ==
    /\ GitResolved
    /\ outcome.kind = "returned"
    /\ truthy(dict_get(call.kvargs, opt_revision))
    /\ truthy(dict_get(call.kvargs, opt_effective_date))
    /\ \E j, k \in DOMAIN git_cmds :
            j < k /\ git_cmds[j].op = "checkout" /\ git_cmds[k].op = "pull"
    /\ ResetsLastTo(dict_get(call.kvargs, opt_revision))

\* a resolve with an effective date and no revision reset to the revision
\* the git program reported
C32_Witness_Reported ==
    /\ GitResolved
    /\ outcome.kind = "returned"
    /\ ~truthy(dict_get(call.kvargs, opt_revision))
    /\ truthy(Reported)
    /\ ResetsLastTo(Reported)

-----------------------------------------------------------------------------
(* Claims about the option bag and about termination with the built-in     *)
(* handlers, checked under SpecBuiltin                                     *)

\* the option that triggers the handler of class cls, <<>> when it has none
TriggerOf(cls) ==
    IF cls = "TarFileMatcher" THEN ext_tar
    ELSE IF cls = "GitFileMatcher" THEN opt_git
    ELSE <<>>

\* the handler call log[k] was made to a handler whose option was in the bag,
\* and the handler accepted
AcceptedByOption(k) ==
    /\ TriggerOf(repo[log[k].idx + 1].cls) # <<>>
    /\ truthy(dict_get(log[k].kvargs, TriggerOf(repo[log[k].idx + 1].cls)))
    /\ ~log[k].raised
    /\ log[k].value # None

\* C33: when the archive handler accepts a request that carries the
\* container-file option, or the git handler one that carries the repository
\* option, the bag it returns does not hold that option, and no later
\* handler call of the resolve is given it: the handler is not triggered
\* by it again after the restart at the head.
C33_OptionRemovedOnAccept ==
    \A k \in DOMAIN log :
        AcceptedByOption(k) =>
            /\ TriggerOf(repo[log[k].idx + 1].cls) \notin DOMAIN log[k].returned
            /\ \A j \in DOMAIN log :
                    j > k => TriggerOf(repo[log[k].idx + 1].cls) \notin DOMAIN log[j].kvargs

\* a resolve that carried both options ended: each of the two handlers
\* accepted once and was called again after the restart
C33_Witness ==
    /\ pc = "idle"
    /\ outcome # None
    /\ outcome.kind = "returned"
    /\ \E k \in DOMAIN log : AcceptedByOption(k) /\ repo[log[k].idx + 1].cls = "TarFileMatcher"
    /\ \E k \in DOMAIN log : AcceptedByOption(k) /\ repo[log[k].idx + 1].cls = "GitFileMatcher"
    /\ \E j, k \in DOMAIN log : j < k /\ AcceptedByOption(j) /\ log[k].idx = log[j].idx

\* the handler call log[k] declined
Declined(k) == ~log[k].raised /\ log[k].value = None

\* C36: a built-in handler that declines returns the option bag as it
\* received it; only a handler that accepts removes options from the bag.
C36_DeclineKeepsBag ==
    \A k \in DOMAIN log : Declined(k) => log[k].returned = log[k].kvargs

\* the resolve is in its loop and has handler calls left to make
InLoop == pc = "dispatching" /\ loop_continues(i, repo)

\* the handler calls of the resolve that accepted
Accepts == {k \in DOMAIN log : ~log[k].raised /\ log[k].value # None}

\* the accepting calls of the resolve made to the handler at position p
AcceptsOf(p) == {k \in Accepts : log[k].idx + 1 = p}

\* C35: with the built-in handlers registered, in any order, resolve
\* terminates for every reference and option bag: each handler produces a
\* new reference at most once in a resolve, and the loop is left, by a
\* return or an error, before the passes it is followed for run out.
C35_Terminates ==
    /\ \A p \in DOMAIN repo : Cardinality(AcceptsOf(p)) <= 1
    /\ InLoop => Len(log) < MaxPasses

\* with all four handlers registered a resolve of the cloud reference ended
\* after the cloud, the decompress and the archive handler each accepted
C35_Witness ==
    /\ Len(repo) = MaxHandlers
    /\ pc = "idle"
    /\ outcome # None
    /\ outcome.kind = "returned"
    /\ Cardinality(Accepts) >= 3

-----------------------------------------------------------------------------
(* The round trip of split_container, checked under SpecSplit *)

\* the container and the inner path returned, put together again
Rejoined == sc_result[1].s \o <<"/">> \o sc_result[2].s

\* C38: whenever split_container returns an inner path, the container, "/"
\* and the inner path together are the input path with its separators
\* normalised, and the container ends with "." and one of the listed
\* extensions.
C38_SplitRoundTrip ==
    (sc_pc = "done" /\ sc_result[2] # None) =>
        /\ Rejoined = normalize_separators(sc_fname)
        /\ \E k \in DOMAIN sc_extensions :
                endswith(sc_result[1].s, <<".">> \o sc_extensions[k])

\* "a.tar\.gz" was split at the back-slash into "a.tar" and ".gz"
C38_Witness ==
    /\ sc_pc = "done"
    /\ sc_fname = <<"a", ".", "t", "a", "r", "\\", ".", "g", "z">>
    /\ sc_extensions = TarExtension
    /\ sc_result = <<Str(<<"a", ".", "t", "a", "r">>), Str(<<".", "g", "z">>)>>

-----------------------------------------------------------------------------
(* Claims about Config.to_dict, checked under SpecConfig *)

\* the paths to the values of the config files and of set()
LeafPaths == {<<<<"a">>>>, <<<<"x">>>>, <<<<"x">>, <<"a">>>>, <<<<"x">>, <<"b">>>>, <<file_key>>}

\* get_value returns a value that is no mapping at the path
IsLeaf(path) ==
    /\ get_value_in(cfg_config, path).raised = ""
    /\ get_value_in(cfg_config, path).value.type # "dict"

\* the last call was to_dict
DictAsked == cfg_last # None /\ cfg_last.op = "to_dict"

\* C39: to_dict() is a deep merge of the layers that agrees with get_value:
\* at every leaf path it holds the value get_value returns, so a key that
\* only a lower layer's nested mapping has stays visible when a higher layer
\* has the same nested mapping with other keys.
C39_ToDictAgreesWithGetValue ==
    DictAsked =>
        /\ cfg_last.result.raised = ""
        /\ \A path \in LeafPaths :
                IsLeaf(path) =>
                    walk(cfg_last.result.value, path) = get_value_in(cfg_config, path)

-----------------------------------------------------------------------------
(* Claims about two resolutions at the same time, checked under             *)
(* SpecConcurrent                                                           *)

\* the other resolution
TheOther(p) == CHOOSE q \in Resolutions : q # p

\* resolution p returned the directory when it did not hold all members
ReturnedIncomplete(p) ==
    /\ cc_pc[p] = "done"
    /\ cc_result[p] = returned(Str(<<"dir">>))
    /\ cc_seen[p] # Range(SharedMembers)

\* resolution p failed
Failed(p) == cc_pc[p] = "done" /\ cc_result[p].raised # ""

\* resolution p has removed or made the directory and has not yet written
\* all members into it
InUpdate(p) == cc_wrote[p] /\ cc_pc[p] \in {"unlink", "mkdir", "extractall"}

\* C34: two resolutions of one archive against one cache directory can
\* interleave so that one returns the extraction directory while the other
\* has wiped it or only partly repopulated it, or so that one fails because
\* the other made or removed the directory in between; nothing but the other
\* resolution's writes brings either about.
C34_BrokenOnlyByTheOther ==
    \A p \in Resolutions :
        (ReturnedIncomplete(p) \/ Failed(p)) => cc_wrote[TheOther(p)]

\* one resolution returned the directory that the other one, still in its
\* update, had wiped or only partly repopulated
C34_Witness ==
    \E p \in Resolutions : ReturnedIncomplete(p) /\ InUpdate(TheOther(p))

\* one resolution failed on a directory the other one had made or removed
C34_Witness_Failed ==
    \E p \in Resolutions :
        /\ Failed(p)
        /\ cc_result[p].raised \in {"FileExistsError", "FileNotFoundError"}
        /\ cc_wrote[TheOther(p)]

====
